---- MODULE Spec2Model ----
(***************************************************************************)
(* Model of the ebook catalog engine of polyglot-reader-backend            *)
(* (controllers/ebookController.ts and server.ts): the per-language sync   *)
(* orchestrator, the import entry point, the paginated reads and the       *)
(* ManyBooks circuit breaker.                                              *)
(*                                                                         *)
(* JavaScript strings that the code inspects character by character        *)
(* (titles, authors, language codes, catalog ids) are sequences of         *)
(* one-character strings; opaque strings (urls, categories, source names)  *)
(* are TLA+ strings, "" being the empty string.                            *)
(***************************************************************************)
EXTENDS Integers, Sequences, FiniteSets, TLC

(***************************************************************************)
(* Bounds of the model.                                                    *)
(***************************************************************************)
\* number of syncEbookCatalogLanguage calls (manual requests and auto-sync calls)
MaxCalls == 2
\* number of firings of the auto-sync timer (the first run included)
MaxTicks == 2
\* number of operations (syncs, one after the other, and imports) in the
\* specification of the catalog data
MaxOps == 2
\* number of getEbooks, getAggregatedPool and getBetterOlMatch calls
MaxLookups == 3
\* number of syncs in the specification of the source failures
MaxFetchCalls == 1
\* the least page size of the queries, scaled down from 10
MinLimit == 2
\* the fetchManyBooks calls
MaxMBCalls == 3
\* the getWorkAuthorsFromWikidata calls
MaxWdCalls == 3
\* the import requests in the specification of the throttled rebuild
MaxImports == 2
\* the books an enrichment pass is given beyond MAX_ENRICH
MaxExtra == 2
\* number of items given to a worker pool
MaxItems == 3
\* number of title details of a listing beyond the number of its workers
MaxMoreDetails == 2
\* rows per upsert request of upsertCatalogItems (400 in the code), scaled so
\* that a run of three rows needs two requests
ChunkSize == 2

(***************************************************************************)
(* Characters and strings.                                                 *)
(***************************************************************************)
UpperChars == <<"A", "B", "C", "D", "E", "N", "S", "U", "X", "Y">>
LowerChars == <<"a", "b", "c", "d", "e", "n", "s", "u", "x", "y">>

\* the combining acute accent U+0301, in the range the code strips
CombiningAcute == "U+0301"
\* the precomposed letters U+00E9 and U+00C9
EAcuteLower == "U+00E9"
EAcuteUpper == "U+00C9"

IsSpace(c) == c \in {" ", "\t"}

ToLowerChar(c) ==
  IF \E i \in 1..Len(UpperChars) : UpperChars[i] = c
  THEN LowerChars[CHOOSE i \in 1..Len(UpperChars) : UpperChars[i] = c]
  ELSE IF c = EAcuteUpper THEN EAcuteLower ELSE c

ToLowerCase(s) == [i \in 1..Len(s) |-> ToLowerChar(s[i])]

RECURSIVE TrimStart(_)
TrimStart(s) == IF s # <<>> /\ IsSpace(Head(s)) THEN TrimStart(Tail(s)) ELSE s

RECURSIVE TrimEnd(_)
TrimEnd(s) ==
  IF s # <<>> /\ IsSpace(s[Len(s)]) THEN TrimEnd(SubSeq(s, 1, Len(s) - 1)) ELSE s

Trim(s) == TrimEnd(TrimStart(s))

\* String.prototype.normalize('NFKD') on the characters of the model
RECURSIVE Nfkd(_)
Nfkd(s) ==
  IF s = <<>> THEN <<>>
  ELSE (IF Head(s) = EAcuteLower THEN <<"e", CombiningAcute>>
        ELSE IF Head(s) = EAcuteUpper THEN <<"E", CombiningAcute>>
        ELSE <<Head(s)>>) \o Nfkd(Tail(s))

\* .replace(/[\u0300-\u036f]/g, '')
StripMarks(s) == SelectSeq(s, LAMBDA c : c # CombiningAcute)

\* .replace(/\s+/g, ' ')
RECURSIVE CollapseSpaces(_)
CollapseSpaces(s) ==
  IF s = <<>> THEN <<>>
  ELSE IF IsSpace(Head(s))
       THEN <<" ">> \o CollapseSpaces(TrimStart(s))
       ELSE <<Head(s)>> \o CollapseSpaces(Tail(s))

normalizeForCatalogNorm(value) ==
  LET raw == Trim(value)
  IN  IF raw = <<>> THEN <<>>
      ELSE ToLowerCase(Trim(CollapseSpaces(StripMarks(Nfkd(raw)))))

\* index of the first '-' or '_' of s, or Len(s) + 1
RECURSIVE FirstDash(_, _)
FirstDash(s, i) ==
  IF i > Len(s) \/ s[i] \in {"-", "_"} THEN i ELSE FirstDash(s, i + 1)

\* null is the empty sequence: the code only tests the result for truthiness
normalizeLang(input) ==
  LET trimmed == ToLowerCase(Trim(input))
  IN  IF trimmed = <<>> THEN <<>>
      ELSE SubSeq(trimmed, 1, FirstDash(trimmed, 1) - 1)

Sep == <<":", ":">>

toCatalogIdRaw(lang, title, author) == lang \o Sep \o title \o Sep \o author

toCatalogId(lang, title, author) ==
  lang \o Sep \o normalizeForCatalogNorm(title) \o Sep \o normalizeForCatalogNorm(author)


\* a test that every author passes
hasAnyAuthor(b) == TRUE

hasResolvedAuthor(b) ==
  LET a == Trim(b.author)
  IN  a # <<>> /\ ToLowerCase(a) # <<"u", "n", "k", "n", "o", "w", "n">>

(***************************************************************************)
(* Candidates (ApiEbook) and the upstream catalogs.                        *)
(***************************************************************************)
\* _popularity that is not a number (undefined)
NoPop == -1
\* a key that is missing from an upsert payload (undefined)
Absent == "<absent>"

Sources == <<"standardebooks", "wolnelektury", "gutendex", "wikisource", "manybooks">>

sourceRank(s) ==
  CASE s = "standardebooks" -> 0
    [] s = "wolnelektury" -> 1
    [] s = "gutendex" -> 2
    [] s = "wikisource" -> 3
    [] s = "manybooks" -> 4
    [] OTHER -> 999

Bk(id, title, author, category, coverUrl, downloadUrl, source, popularity) ==
  [id |-> id, title |-> title, author |-> author, category |-> category,
   coverUrl |-> coverUrl, downloadUrl |-> downloadUrl, source |-> source,
   popularity |-> popularity]

En == <<"e", "n">>
De == <<"d", "e">>
Unknown == <<"U", "n", "k", "n", "o", "w", "n">>

\* a cover for which isProbablyGenericGutenbergCover holds
GenericCover == "https://www.gutenberg.org/cache/epub/3/pg3.cover.medium.jpg"

isProbablyGenericGutenbergCover(url) == url = GenericCover

\* the keywords of titleLooksAcademic
AcademicKeywords ==
  {<<"t", "h", "e", "s", "i", "s">>,
   <<"d", "i", "s", "s", "e", "r", "t", "a", "t", "i", "o", "n">>,
   <<"p", "r", "o", "c", "e", "e", "d", "i", "n", "g", "s">>,
   <<"t", "r", "a", "n", "s", "a", "c", "t", "i", "o", "n", "s">>,
   <<"j", "o", "u", "r", "n", "a", "l">>,
   <<"c", "o", "n", "f", "e", "r", "e", "n", "c", "e">>,
   <<"r", "e", "s", "e", "a", "r", "c", "h">>,
   <<"r", "e", "p", "o", "r", "t">>,
   <<"t", "e", "c", "h", "n", "i", "c", "a", "l">>,
   <<"l", "a", "b", "o", "r", "a", "t", "o", "r", "y">>,
   <<"l", "a", "b", "o", "r", "a", "t", "o", "r", "i", "e", "s">>,
   <<"h", "a", "n", "d", "b", "o", "o", "k">>,
   <<"m", "a", "n", "u", "a", "l">>,
   <<"t", "r", "e", "a", "t", "i", "s", "e">>,
   <<"m", "o", "n", "o", "g", "r", "a", "p", "h">>,
   <<"l", "e", "c", "t", "u", "r", "e", "s", " ", "o", "n">>,
   <<"n", "o", "t", "e", "s", " ", "o", "n">>,
   <<"i", "n", "t", "r", "o", "d", "u", "c", "t", "i", "o", "n", " ", "t", "o">>,
   <<"t", "e", "x", "t", "b", "o", "o", "k">>,
   <<"c", "o", "u", "r", "s", "e">>,
   <<"s", "y", "l", "l", "a", "b", "u", "s">>}

\* t.includes(k)
Includes(t, k) == \E i \in 0..(Len(t) - Len(k)) : SubSeq(t, i + 1, i + Len(k)) = k

titleLooksAcademic(title) ==
  LET t == ToLowerCase(title)
  IN  \E k \in AcademicKeywords : Includes(t, k)

\* a title with a keyword of the academic blocklist
NotesOn == <<"N", "o", "t", "e", "s", " ", "o", "n", " ", "X">>

\* an author that is 'unknown' in other letter case
UnknownMixed == <<"U", "N", "k", "N", "o", "w", "N">>

\* what each upstream holds for a language
UpstreamData(lang, s) ==
  CASE s = "standardebooks" ->
         <<Bk("se:1", <<"D">>, <<"Y">>, "Drama", "cover-se", "dl-se", "standardebooks", NoPop)>>
    [] s = "gutendex" ->
         <<Bk("gutenberg:1", <<"A", "b">>, <<"X">>, "Fiction", "", "dl-g1", "gutendex", 10),
           Bk("gutenberg:2", <<"C">>, Unknown, "Fiction", "cover-g2", "dl-g2", "gutendex", 7),
           Bk("gutenberg:3", <<"a", " ", " ", "b">>, <<"x">>, "", GenericCover, "dl-g3", "gutendex", 5),
           Bk("gutenberg:4", NotesOn, <<"X">>, "Fiction", "cover-g4", "dl-g4", "gutendex", 9),
           Bk("gutenberg:5", <<"E">>, <<" ">>, "Fiction", "cover-g5", "dl-g5", "gutendex", 8),
           Bk("gutenberg:6", <<"E">>, UnknownMixed, "Fiction", "cover-g6", "dl-g6", "gutendex", 6)>>
    [] s = "wikisource" ->
         IF lang = En
         THEN <<Bk("ws:1", <<"a", "B">>, <<"x">>, "Fiction", "cover-ws", "dl-ws", "wikisource", NoPop),
                Bk("ws:2", <<"N">>, <<"Y">>, "Drama", "cover-w2", "", "wikisource", NoPop)>>
         ELSE <<>>
    [] s = "manybooks" ->
         <<Bk("manybooks:1", <<"A", "b">>, <<"X", " ">>, "Drama", "", "dl-mb", "manybooks", NoPop),
           Bk("manybooks:2", NotesOn, <<"Y">>, "Drama", "cover-m2", "dl-m2", "manybooks", NoPop)>>
    [] OTHER -> <<>>

\* what the fetcher of a source returns: every fetcher skips the records whose
\* title looks academic (the subjects, which the candidates of the model do not
\* carry, are tested the same way)
FetchSource(lang, s) ==
  SelectSeq(UpstreamData(lang, s), LAMBDA b : ~titleLooksAcademic(b.title))

\* the sources the sync asks for a language (the others are Promise.resolve([]))
Applicable(lang, s) ==
  CASE s = "standardebooks" -> lang = En
    [] s = "wolnelektury" -> lang = <<"p", "l">>
    [] OTHER -> TRUE

\* a merge that keeps the record it has
keepExisting(a, b) == a

pickBetterCandidate(a, b) ==
  LET aHasCover == a.coverUrl # ""
      bHasCover == b.coverUrl # ""
      ap == IF a.popularity # NoPop THEN a.popularity ELSE 0
      bp == IF b.popularity # NoPop THEN b.popularity ELSE 0
      ar == sourceRank(a.source)
      br == sourceRank(b.source)
  IN  IF aHasCover # bHasCover THEN (IF bHasCover THEN b ELSE a)
      ELSE IF ap # bp THEN (IF bp > ap THEN b ELSE a)
      ELSE IF ar # br THEN (IF br < ar THEN b ELSE a)
      ELSE a

\* the first guard of both loops of the sync: title, author and download url present
IsPersistable(b) ==
  /\ Trim(b.title) # <<>>
  /\ Trim(b.author) # <<>>
  /\ b.downloadUrl # ""
  /\ hasResolvedAuthor(b)

\* index of the entry of a Map (a sequence of [id, b], in insertion order), or 0
MapIndex(m, id) ==
  IF \E i \in 1..Len(m) : m[i].id = id
  THEN CHOOSE i \in 1..Len(m) : m[i].id = id
  ELSE 0

\* the loop that merges the candidates into the Map deduped
RECURSIVE Dedupe(_, _, _)
Dedupe(lang, all, deduped) ==
  IF all = <<>> THEN deduped
  ELSE LET b == Head(all)
           id == toCatalogId(lang, Trim(b.title), Trim(b.author))
           k == MapIndex(deduped, id)
       IN  IF ~IsPersistable(b) THEN Dedupe(lang, Tail(all), deduped)
           ELSE IF k = 0
                THEN Dedupe(lang, Tail(all), Append(deduped, [id |-> id, b |-> b]))
                ELSE Dedupe(lang, Tail(all),
                            [deduped EXCEPT ![k].b = pickBetterCandidate(deduped[k].b, b)])

\* a row whose id carries the time of the run
CatalogRowStamped(lang, b, nowIso) ==
  LET title == Trim(b.title)
      author == Trim(b.author)
  IN  [id |-> toCatalogId(lang, title, author) \o <<"@">> \o <<ToString(nowIso)>>,
       lang_code |-> lang, title |-> title, author |-> author,
       category |-> IF b.category = "" THEN "Fiction" ELSE b.category,
       download_url |-> b.downloadUrl, source |-> b.source, source_id |-> b.id,
       source_popularity |-> b.popularity,
       author_norm |-> normalizeForCatalogNorm(author),
       title_norm |-> normalizeForCatalogNorm(title),
       cover_url |-> IF b.coverUrl # "" THEN b.coverUrl ELSE Absent]

\* the row built for one deduped candidate (the timestamps updated_at and
\* last_seen_at, which no read of the model looks at, are left out)
CatalogRow(lang, b, nowIso) ==
  LET title == Trim(b.title)
      author == Trim(b.author)
  IN  [id |-> toCatalogId(lang, title, author),
       lang_code |-> lang, title |-> title, author |-> author,
       category |-> IF b.category = "" THEN "Fiction" ELSE b.category,
       download_url |-> b.downloadUrl, source |-> b.source, source_id |-> b.id,
       source_popularity |-> b.popularity,
       author_norm |-> normalizeForCatalogNorm(author),
       title_norm |-> normalizeForCatalogNorm(title),
       cover_url |-> IF b.coverUrl # "" THEN b.coverUrl ELSE Absent]

BuildRows(lang, all, nowIso) ==
  LET deduped == Dedupe(lang, all, <<>>)
      kept == SelectSeq(deduped, LAMBDA e : IsPersistable(e.b))
  IN  [i \in 1..Len(kept) |-> CatalogRow(lang, kept[i].b, nowIso)]


(***************************************************************************)
(* State.                                                                  *)
(***************************************************************************)
VARIABLES
  calls,                \* the syncEbookCatalogLanguage calls made so far, in order
  runs,                 \* per call: the async body `work` it started, if any
  catalogSyncInFlight,  \* Map lang -> the run stored for it (0: no entry)
  syncState,            \* table ebook_catalog_sync_state, per lang_code
  catalog,              \* table ebook_catalog_items: a set of rows, unique by id
  counts,               \* tables ebook_catalog_category_counts / _author_counts
  autoSync,             \* the invocations of `run` of the auto-sync timer
  imports,              \* the postEbookCatalogImport requests
  countsRebuildLastAt,  \* Map lang -> time of the last throttled rebuild (0: none)
  now                   \* Date.now()

VARIABLES
  resp,                 \* the response of the last catalog query served
  olCache               \* Map olCache: key -> [expiresAt, title]

queryVars == <<resp, olCache>>

VARIABLES
  manyBooksBlockedUntil,  \* the time until which ManyBooks is not asked (0: never blocked)
  mbCalls,                \* the fetchManyBooks calls made so far, in order
  lastBlockAt             \* the time of the last block response observed (0: none)

mbVars == <<manyBooksBlockedUntil, mbCalls, lastBlockAt>>

VARIABLES
  cache,                  \* Map cache of getEbooks: the entries [key, expiresAt, value]
  poolCache,              \* Map poolCache: the entries [key, expiresAt, value]
  poolInFlight,           \* Map poolInFlight: the entries [key, work]
  olInFlight,             \* Map olInFlight: the entries [key, work]
  lookups                 \* the getEbooks, getAggregatedPool and getBetterOlMatch calls, in order

\* the state of the caches but the overview cache
otherCaches == <<poolCache, poolInFlight, olInFlight, lookups>>

cacheVars == <<cache, otherCaches>>

VARIABLES
  args,                   \* the arguments a function of the module is applied to
  returned                \* what it returned for them (<<>>: not applied yet)

fnVars == <<args, returned>>

VARIABLES
  gutendex,               \* the fetchGutendex call: its locals, its requests and its sleeps
  workAuthorCache,        \* Map workAuthorCache: the entries [key, expiresAt, author]
  wdCalls,                \* the getWorkAuthorsFromWikidata calls made so far, in order
  enrichPool              \* the enrichment pass: the locals of mapWithConcurrency and its workers

\* fetchGutendex before it is called
NoGutendex ==
  [pc |-> "idle", limit |-> 0, maxPages |-> 0, maxRetries |-> 0, pageDelayMs |-> 0,
   page |-> 1, attempt |-> 0, out |-> <<>>, outstanding |-> 0, slept |-> 0,
   resp |-> [status |-> 0, retryAfter |-> <<>>, results |-> <<>>]]

wdVars == <<workAuthorCache, wdCalls>>

netVars == <<gutendex, wdVars, enrichPool>>

\* no enrichment pass is running
NoPool ==
  [pc |-> "idle", given |-> 0, items |-> 0, next |-> 0, workers |-> <<>>,
   lookedUp |-> 0, inFlight |-> 0]

InitNet ==
  /\ gutendex = NoGutendex
  /\ workAuthorCache = {}
  /\ wdCalls = <<>>
  /\ enrichPool = NoPool

dataVars == <<calls, runs, catalogSyncInFlight, syncState, catalog, counts, autoSync,
              imports, countsRebuildLastAt>>

syncVars == <<dataVars, now>>

vars == <<syncVars, queryVars, mbVars, cacheVars, fnVars, netVars>>

\* ManyBooks has not been asked yet
InitManyBooks ==
  /\ manyBooksBlockedUntil = 0
  /\ mbCalls = <<>>
  /\ lastBlockAt = 0

\* nothing is cached and nothing is in flight
InitCaches ==
  /\ cache = {}
  /\ poolCache = {}
  /\ poolInFlight = {}
  /\ olInFlight = {}
  /\ lookups = <<>>

\* no function is being applied
NoArgs ==
  /\ args = <<>>
  /\ returned = <<>>

\* the raw language arguments of the manual trigger
LangInputs == {En, <<"E", "N", "-", "U", "S">>, De}

\* const lang = normalizeLang(langRaw) || langRaw || 'en'
SyncLang(langRaw) ==
  IF normalizeLang(langRaw) # <<>> THEN normalizeLang(langRaw)
  ELSE IF langRaw # <<>> THEN langRaw ELSE En

Langs == {SyncLang(l) : l \in LangInputs}

\* EBOOK_CATALOG_LANGS || 'en,de', split, trimmed and lower-cased
AutoLangs == <<En, De>>

CallIds == 1..Len(calls)

ErrItems == "ebook_catalog_items upsert failed"
ErrState == "ebook_catalog_sync_state upsert failed"

NoRun ==
  [pc |-> "none", lang |-> <<>>, rows |-> <<>>, next |-> 0, error |-> "",
   failed |-> {}, lastWrite |-> "none", added |-> 0, dbFailed |-> FALSE,
   failedAt |-> 0]

NoSyncState ==
  [status |-> "none", last_started_at |-> 0, last_completed_at |-> 0,
   last_error |-> "", last_items_upserted |-> 0]

Categories == {"Fiction", "Drama"}

NoCounts == [category |-> [c \in Categories |-> 0], author |-> <<>>]

\* a run between the start of `work` and its settlement
Executing(r) == runs[r].pc \notin {"none", "resolved", "rejected"}

ExecutingFor(lang) == {r \in CallIds : Executing(r) /\ runs[r].lang = lang}

(***************************************************************************)
(* The datastore.                                                          *)
(***************************************************************************)
\* upsert of one row, onConflict: 'id'. The columns of the request are the
\* union of the keys of its rows; a row without cover_url gets the column
\* default (null) when another row of the request has the key, and keeps the
\* stored value when none has.
UpsertRow(cat, row, hasCoverColumn) ==
  LET old == {x \in cat : x.id = row.id}
      cover == IF row.cover_url # Absent THEN row.cover_url
               ELSE IF hasCoverColumn \/ old = {} THEN ""
               ELSE (CHOOSE x \in old : TRUE).cover_url
  IN  (cat \ old) \cup {[row EXCEPT !.cover_url = cover]}

RECURSIVE UpsertRows(_, _, _)
UpsertRows(cat, chunk, hasCoverColumn) ==
  IF chunk = <<>> THEN cat
  ELSE UpsertRows(UpsertRow(cat, Head(chunk), hasCoverColumn), Tail(chunk), hasCoverColumn)

\* supabase.from(EBOOK_CATALOG_ITEMS_TABLE).upsert(chunk, {onConflict: 'id'})
UpsertChunk(cat, chunk) ==
  UpsertRows(cat, chunk, \E i \in 1..Len(chunk) : chunk[i].cover_url # Absent)

\* rows.slice(i, i + chunkSize), i being next - 1
ChunkAt(rows, next) ==
  SubSeq(rows, next, IF next + ChunkSize - 1 < Len(rows) THEN next + ChunkSize - 1 ELSE Len(rows))

\* upsertCatalogSyncState: only the keys of the patch are written
UpsertSyncState(table, lang, patch) ==
  [table EXCEPT ![lang] =
     [f \in DOMAIN NoSyncState |-> IF f \in DOMAIN patch THEN patch[f] ELSE table[lang][f]]]

\* rpc ebook_catalog_rebuild_counts(p_lang): the counts of a language are
\* recomputed from its catalog rows
RebuildCounts(cat, lang) ==
  LET mine == {x \in cat : x.lang_code = lang}
      authors == {x.author_norm : x \in mine}
  IN  [category |-> [c \in Categories \cup {x.category : x \in mine} |->
                       Cardinality({x \in mine : x.category = c})],
       author |-> [a \in authors |-> Cardinality({x \in mine : x.author_norm = a})]]

(***************************************************************************)
(* syncEbookCatalogLanguage.                                               *)
(***************************************************************************)
\* a lookup that never finds the run in flight
InFlightNever(map, lang) == 0

\* a lookup that finds the run in flight of any language
InFlightAny(map, lang) ==
  IF \E l \in DOMAIN map : map[l] # 0
  THEN map[CHOOSE l \in DOMAIN map : map[l] # 0]
  ELSE 0

\* catalogSyncInFlight.get(lang)
InFlightGet(map, lang) == map[lang]

\* a safeFetch that rethrows
safeFetchRethrow(label, result) == result

\* safeFetch: a failed fetch is an empty list
safeFetch(label, result) == IF result = "failed" THEN <<>> ELSE result

NewCall(lang, run) ==
  [lang |-> lang, run |-> run, outcome |-> "pending", upserted |-> 0,
   error |-> "", saw |-> ExecutingFor(lang)]

\* a call that starts `work` without storing it in the Map
DoSyncCallNoSet(langRaw) ==
  LET lang == SyncLang(langRaw)
      c == Len(calls) + 1
      existing == InFlightGet(catalogSyncInFlight, lang)
  IN  IF existing # 0
      THEN /\ calls' = Append(calls, NewCall(lang, existing))
           /\ runs' = Append(runs, NoRun)
           /\ UNCHANGED catalogSyncInFlight
      ELSE /\ calls' = Append(calls, NewCall(lang, c))
           /\ runs' = Append(runs, [NoRun EXCEPT !.pc = "wRunning", !.lang = lang])
           /\ UNCHANGED catalogSyncInFlight

\* the synchronous part of a call: coalesce with the run in flight, or start
\* `work` (up to its first await, the 'running' upsert) and store it in the Map
DoSyncCall(langRaw) ==
  LET lang == SyncLang(langRaw)
      c == Len(calls) + 1
      existing == InFlightGet(catalogSyncInFlight, lang)
  IN  IF existing # 0
      THEN /\ calls' = Append(calls, NewCall(lang, existing))
           /\ runs' = Append(runs, NoRun)
           /\ UNCHANGED catalogSyncInFlight
      ELSE /\ calls' = Append(calls, NewCall(lang, c))
           /\ runs' = Append(runs, [NoRun EXCEPT !.pc = "wRunning", !.lang = lang])
           /\ catalogSyncInFlight' = [catalogSyncInFlight EXCEPT ![lang] = c]

\* postEbookCatalogSync
ManualSync(langRaw) ==
  /\ Len(calls) < MaxCalls
  /\ DoSyncCall(langRaw)
  /\ UNCHANGED <<syncState, catalog, counts, autoSync, imports, countsRebuildLastAt, now>>

\* a timer that starts `work` itself, whatever is in flight
AutoTickBypass ==
  LET lang == SyncLang(AutoLangs[1])
      c == Len(calls) + 1
  IN  /\ Len(autoSync) < MaxTicks
      /\ Len(calls) < MaxCalls
      /\ calls' = Append(calls, NewCall(lang, c))
      /\ runs' = Append(runs, [NoRun EXCEPT !.pc = "wRunning", !.lang = lang])
      /\ catalogSyncInFlight' = [catalogSyncInFlight EXCEPT ![lang] = c]
      /\ autoSync' = Append(autoSync, [pos |-> 1, call |-> c])
      /\ UNCHANGED <<syncState, catalog, counts, imports, countsRebuildLastAt, now>>

\* the timer fires: `run` starts and calls the sync of its first language
AutoTick ==
  /\ Len(autoSync) < MaxTicks
  /\ Len(calls) < MaxCalls
  /\ DoSyncCall(AutoLangs[1])
  /\ autoSync' = Append(autoSync, [pos |-> 1, call |-> Len(calls) + 1])
  /\ UNCHANGED <<syncState, catalog, counts, imports, countsRebuildLastAt, now>>

\* the awaited sync of `run` has settled (a rejection is caught and logged):
\* the loop goes on with the next language
AutoNext(t) ==
  /\ t \in 1..Len(autoSync)
  /\ autoSync[t].pos <= Len(AutoLangs)
  /\ calls[autoSync[t].call].outcome # "pending"
  /\ IF autoSync[t].pos = Len(AutoLangs)
     THEN /\ autoSync' = [autoSync EXCEPT ![t].pos = autoSync[t].pos + 1]
          /\ UNCHANGED <<calls, runs, catalogSyncInFlight>>
     ELSE /\ Len(calls) < MaxCalls
          /\ DoSyncCall(AutoLangs[autoSync[t].pos + 1])
          /\ autoSync' = [autoSync EXCEPT ![t].pos = autoSync[t].pos + 1,
                                          ![t].call = Len(calls) + 1]
  /\ UNCHANGED <<syncState, catalog, counts, imports, countsRebuildLastAt, now>>

\* a settlement that leaves the Map entry of the language in place
SettleKeep(r, outcome, upserted, error) ==
  /\ calls' = [i \in 1..Len(calls) |->
                 IF calls[i].run = r /\ calls[i].outcome = "pending"
                 THEN [calls[i] EXCEPT !.outcome = outcome, !.upserted = upserted,
                                       !.error = error]
                 ELSE calls[i]]
  /\ UNCHANGED catalogSyncInFlight

\* `work` settles: every caller awaiting it gets its outcome, and the finally
\* of the caller that started it deletes the Map entry of the language
Settle(r, outcome, upserted, error) ==
  /\ calls' = [i \in 1..Len(calls) |->
                 IF calls[i].run = r /\ calls[i].outcome = "pending"
                 THEN [calls[i] EXCEPT !.outcome = outcome, !.upserted = upserted,
                                       !.error = error]
                 ELSE calls[i]]
  /\ catalogSyncInFlight' = [catalogSyncInFlight EXCEPT ![runs[r].lang] = 0]

\* the 'running' upsert succeeds; the fetches start
RunningWriteOk(r) ==
  /\ runs[r].pc = "wRunning"
  /\ syncState' = UpsertSyncState(syncState, runs[r].lang,
                    [status |-> "running", last_started_at |-> r, last_error |-> ""])
  /\ runs' = [runs EXCEPT ![r].pc = "fetch", ![r].lastWrite = "running"]
  /\ UNCHANGED <<calls, catalogSyncInFlight, catalog, counts, autoSync, imports,
                 countsRebuildLastAt, now>>

\* the 'running' upsert fails: it is outside the try, `work` rejects
RunningWriteFail(r) ==
  /\ runs[r].pc = "wRunning"
  /\ runs' = [runs EXCEPT ![r].pc = "rejected", ![r].error = ErrState, ![r].dbFailed = TRUE]
  /\ Settle(r, "err", 0, ErrState)
  /\ UNCHANGED <<syncState, catalog, counts, autoSync, imports, countsRebuildLastAt, now>>

ApplicableSources(lang) ==
  {Sources[i] : i \in {j \in 1..Len(Sources) : Applicable(lang, Sources[j])}}

\* Promise.all of the fetches has settled: merge, build the rows, start the upserts
Fetched(r, failedSources) ==
  LET lang == runs[r].lang
      raw == [i \in 1..Len(Sources) |->
                IF ~Applicable(lang, Sources[i]) THEN <<>>
                ELSE safeFetch(Sources[i],
                               IF Sources[i] \in failedSources THEN "failed"
                               ELSE FetchSource(lang, Sources[i]))]
      thrown == \E i \in 1..Len(Sources) : raw[i] = "failed"
      ok == [i \in 1..Len(Sources) |-> IF raw[i] = "failed" THEN <<>> ELSE raw[i]]
      \* [...standard, ...wolne, ...gutendex, ...wikisource, ...manybooks]
      all == ok[1] \o ok[2] \o ok[3] \o ok[4] \o ok[5]
      rows == BuildRows(lang, all, r)
  IN  /\ runs[r].pc = "fetch"
      /\ failedSources \subseteq ApplicableSources(lang)
      /\ runs' = [runs EXCEPT
                    ![r].pc = IF thrown THEN "wError"
                              ELSE IF rows = <<>> THEN "rebuild" ELSE "upsert",
                    ![r].error = IF thrown THEN "fetch failed" ELSE "",
                    ![r].rows = IF thrown THEN <<>> ELSE rows,
                    ![r].next = 1,
                    ![r].failed = failedSources]
      /\ UNCHANGED <<calls, catalogSyncInFlight, syncState, catalog, counts, autoSync,
                     imports, countsRebuildLastAt, now>>

\* one request of upsertCatalogItems succeeds
UpsertOk(r) ==
  LET chunk == ChunkAt(runs[r].rows, runs[r].next)
      next == runs[r].next + ChunkSize
      fresh == {i \in 1..Len(chunk) : \A x \in catalog : x.id # chunk[i].id}
  IN  /\ runs[r].pc = "upsert"
      /\ catalog' = UpsertChunk(catalog, chunk)
      /\ runs' = [runs EXCEPT ![r].next = next,
                              ![r].added = runs[r].added + Cardinality(fresh),
                              ![r].pc = IF next > Len(runs[r].rows) THEN "rebuild" ELSE "upsert"]
      /\ UNCHANGED <<calls, catalogSyncInFlight, syncState, counts, autoSync, imports,
                     countsRebuildLastAt, now>>

\* one request of upsertCatalogItems fails: resp.error is thrown
UpsertFail(r) ==
  /\ runs[r].pc = "upsert"
  /\ runs' = [runs EXCEPT ![r].pc = "wError", ![r].error = ErrItems, ![r].dbFailed = TRUE,
                          ![r].failedAt = runs[r].next]
  /\ UNCHANGED <<calls, catalogSyncInFlight, syncState, catalog, counts, autoSync, imports,
                 countsRebuildLastAt, now>>

\* the rebuild rpc answers; its failure is logged and ignored
Rebuild(r, rpcOk) ==
  /\ runs[r].pc = "rebuild"
  /\ counts' = IF rpcOk THEN [counts EXCEPT ![runs[r].lang] = RebuildCounts(catalog, runs[r].lang)]
               ELSE counts
  /\ runs' = [runs EXCEPT ![r].pc = "wIdle"]
  /\ UNCHANGED <<calls, catalogSyncInFlight, syncState, catalog, autoSync, imports,
                 countsRebuildLastAt, now>>

\* the 'idle' upsert succeeds: `work` resolves with {upserted: rows.length}
IdleWriteOk(r) ==
  /\ runs[r].pc = "wIdle"
  /\ syncState' = UpsertSyncState(syncState, runs[r].lang,
                    [status |-> "idle", last_completed_at |-> r,
                     last_items_upserted |-> Len(runs[r].rows), last_error |-> ""])
  /\ runs' = [runs EXCEPT ![r].pc = "resolved", ![r].lastWrite = "idle"]
  /\ Settle(r, "ok", Len(runs[r].rows), "")
  /\ UNCHANGED <<catalog, counts, autoSync, imports, countsRebuildLastAt, now>>

\* the 'idle' upsert fails inside the try: the catch takes over
IdleWriteFail(r) ==
  /\ runs[r].pc = "wIdle"
  /\ runs' = [runs EXCEPT ![r].pc = "wError", ![r].error = ErrState, ![r].dbFailed = TRUE]
  /\ UNCHANGED <<calls, catalogSyncInFlight, syncState, catalog, counts, autoSync, imports,
                 countsRebuildLastAt, now>>

\* the 'error' upsert of the catch succeeds: `work` rejects with the caught error
ErrorWriteOk(r) ==
  /\ runs[r].pc = "wError"
  /\ syncState' = UpsertSyncState(syncState, runs[r].lang,
                    [status |-> "error", last_completed_at |-> r,
                     last_error |-> IF runs[r].error # "" THEN runs[r].error
                                    ELSE "Catalog sync failed"])
  /\ runs' = [runs EXCEPT ![r].pc = "rejected", ![r].lastWrite = "error"]
  /\ Settle(r, "err", 0, runs[r].error)
  /\ UNCHANGED <<catalog, counts, autoSync, imports, countsRebuildLastAt, now>>

\* the 'error' upsert of the catch fails: `work` rejects with that error
ErrorWriteFail(r) ==
  /\ runs[r].pc = "wError"
  /\ runs' = [runs EXCEPT ![r].pc = "rejected", ![r].error = ErrState, ![r].dbFailed = TRUE]
  /\ Settle(r, "err", 0, ErrState)
  /\ UNCHANGED <<syncState, catalog, counts, autoSync, imports, countsRebuildLastAt, now>>

(***************************************************************************)
(* postEbookCatalogImport.                                                 *)
(***************************************************************************)
\* rows read per fetchExistingByIds request (200 in the code), scaled like ChunkSize
ImportBatchSize == 2

\* times are counted in seconds: 60 * 1000 ms
COUNTS_REBUILD_THROTTLE_MS == 60

\* new URL(u): whether it parses, its protocol and its hostname
ParseUrl(u) ==
  CASE u = "https://manybooks.net/1.epub" ->
         [ok |-> TRUE, protocol |-> "https:", hostname |-> "manybooks.net"]
    [] u = "https://cdn.manybooks.net/2.epub" ->
         [ok |-> TRUE, protocol |-> "https:", hostname |-> "cdn.manybooks.net"]
    [] u = "ftp://manybooks.net/3.epub" ->
         [ok |-> TRUE, protocol |-> "ftp:", hostname |-> "manybooks.net"]
    [] u = "https://evil.example/manybooks.net.epub" ->
         [ok |-> TRUE, protocol |-> "https:", hostname |-> "evil.example"]
    [] u = "https://manybooks.net/cover/1.jpg" ->
         [ok |-> TRUE, protocol |-> "https:", hostname |-> "manybooks.net"]
    [] OTHER -> [ok |-> FALSE, protocol |-> "", hostname |-> ""]

isAllowedManyBooksHost(hostname) ==
  hostname = "manybooks.net" \/ hostname = "cdn.manybooks.net"

Item(title, author, category, coverUrl, downloadUrl, sourceId, sourcePopularity) ==
  [title |-> title, author |-> author, category |-> category, coverUrl |-> coverUrl,
   downloadUrl |-> downloadUrl, sourceId |-> sourceId, sourcePopularity |-> sourcePopularity]

\* the request bodies of the model (items)
ImportPayloads ==
  { << Item(<<"A", "b">>, <<"X">>, "Drama", "https://manybooks.net/cover/1.jpg",
            "https://manybooks.net/1.epub", "", NoPop),
       Item(<<" ", "a", "B">>, <<"x">>, "", "", "https://cdn.manybooks.net/2.epub", "mb-2", 4),
       Item(<<"E", "e">>, <<"Y">>, "", "not a url", "https://cdn.manybooks.net/2.epub", "", NoPop) >>,
    << Item(<<"C">>, <<"X">>, "", "", "https://manybooks.net/1.epub", "", NoPop),
       Item(<<"C", "c">>, Unknown, "", "", "https://manybooks.net/1.epub", "", NoPop),
       Item(<<"C", "c">>, <<"X">>, "", "", "ftp://manybooks.net/3.epub", "", NoPop),
       Item(<<"C", "c">>, <<"X">>, "", "", "https://evil.example/manybooks.net.epub", "", NoPop),
       Item(<<"C", "c">>, <<"X">>, "", "", "", "", NoPop),
       Item(<<"C", "c">>, <<" ">>, "", "", "https://manybooks.net/1.epub", "", NoPop),
       Item(<<"C", "c">>, UnknownMixed \o <<" ">>, "", "", "https://manybooks.net/1.epub", "", NoPop) >>,
    << Item(NotesOn, <<"Y">>, "", "", "https://manybooks.net/1.epub", "", NoPop) >> }

\* why an item is rejected, or "" when it is accepted
RejectReason(raw) ==
  LET title == Trim(raw.title)
      author == Trim(raw.author)
      dl == ParseUrl(raw.downloadUrl)
  IN  IF title = <<>> \/ Len(title) < 2 THEN "missing_title"
      ELSE IF author = <<>> \/ ToLowerCase(author) = ToLowerCase(Unknown) THEN "missing_author"
      ELSE IF raw.downloadUrl = "" THEN "missing_download_url"
      ELSE IF ~dl.ok THEN "invalid_download_url"
      ELSE IF dl.protocol \notin {"http:", "https:"} THEN "invalid_download_url_protocol"
      ELSE IF ~isAllowedManyBooksHost(dl.hostname) THEN "download_host_not_allowed"
      ELSE ""

\* a row whose id is put together from the text as it was sent
ImportRowRawId(lang, raw) ==
  LET title == Trim(raw.title)
      author == Trim(raw.author)
      cu == ParseUrl(raw.coverUrl)
      coverOk == IF raw.coverUrl # "" /\ cu.ok /\ cu.protocol \in {"http:", "https:"}
                 THEN raw.coverUrl ELSE ""
  IN  [id |-> toCatalogIdRaw(lang, title, author),
       lang_code |-> lang, title |-> title, author |-> author,
       category |-> IF raw.category = "" THEN "Fiction" ELSE raw.category,
       download_url |-> raw.downloadUrl, source |-> "manybooks", source_id |-> raw.sourceId,
       source_popularity |-> raw.sourcePopularity,
       author_norm |-> normalizeForCatalogNorm(author),
       title_norm |-> normalizeForCatalogNorm(title),
       cover_url |-> coverOk]

\* the row of an accepted item
ImportRow(lang, raw) ==
  LET title == Trim(raw.title)
      author == Trim(raw.author)
      cu == ParseUrl(raw.coverUrl)
      coverOk == IF raw.coverUrl # "" /\ cu.ok /\ cu.protocol \in {"http:", "https:"}
                 THEN raw.coverUrl ELSE ""
  IN  [id |-> toCatalogId(lang, title, author),
       lang_code |-> lang, title |-> title, author |-> author,
       category |-> IF raw.category = "" THEN "Fiction" ELSE raw.category,
       download_url |-> raw.downloadUrl, source |-> "manybooks", source_id |-> raw.sourceId,
       source_popularity |-> raw.sourcePopularity,
       author_norm |-> normalizeForCatalogNorm(author),
       title_norm |-> normalizeForCatalogNorm(title),
       cover_url |-> coverOk]

\* validate and normalize the items, dedupe them by catalog id
RECURSIVE ImportDedupe(_, _, _)
ImportDedupe(lang, slice, deduped) ==
  IF slice = <<>> THEN deduped
  ELSE IF RejectReason(Head(slice)) # "" THEN ImportDedupe(lang, Tail(slice), deduped)
  ELSE LET row == ImportRow(lang, Head(slice))
           k == MapIndex(deduped, row.id)
           prev == deduped[k]
       IN  IF k = 0 THEN ImportDedupe(lang, Tail(slice), Append(deduped, row))
           ELSE ImportDedupe(lang, Tail(slice),
                  [deduped EXCEPT ![k] =
                     [prev EXCEPT
                        !.cover_url = IF prev.cover_url = "" /\ row.cover_url # ""
                                      THEN row.cover_url ELSE prev.cover_url,
                        !.source_id = IF prev.source_id = "" /\ row.source_id # ""
                                      THEN row.source_id ELSE prev.source_id,
                        !.source_popularity =
                           IF prev.source_popularity \in {NoPop, 0}
                              /\ row.source_popularity \notin {NoPop, 0}
                           THEN row.source_popularity ELSE prev.source_popularity]])

\* the decision for one incoming row against the stored row with its id:
\* "insert", "skip", or the merged row of an update
MergeExisting(lang, row, existing) ==
  LET existingCover == existing.cover_url
      incomingCover == row.cover_url
      canUpgradeCover == incomingCover # ""
                         /\ (existingCover = "" \/ isProbablyGenericGutenbergCover(existingCover))
      existingDl == existing.download_url
      canBackfillDownloadUrl == existingDl = "" /\ row.download_url # ""
  IN  [existing EXCEPT
         !.cover_url = IF canUpgradeCover THEN incomingCover ELSE existingCover,
         !.download_url = IF existingDl # "" THEN existingDl ELSE row.download_url,
         !.source = IF canBackfillDownloadUrl THEN "manybooks" ELSE existing.source,
         !.source_id = IF canBackfillDownloadUrl THEN row.source_id ELSE existing.source_id,
         !.source_popularity = IF existing.source_popularity # NoPop
                               THEN existing.source_popularity ELSE row.source_popularity]

CanUpgrade(row, existing) ==
  \/ row.cover_url # ""
     /\ (existing.cover_url = "" \/ isProbablyGenericGutenbergCover(existing.cover_url))
  \/ existing.download_url = "" /\ row.download_url # ""

\* the loop over one batch, against the rows read by fetchExistingByIds
RECURSIVE MergeBatch(_, _, _, _)
MergeBatch(lang, batch, existingRows, acc) ==
  IF batch = <<>> THEN acc
  ELSE LET row == Head(batch)
           found == {x \in existingRows : x.id = row.id}
           existing == CHOOSE x \in found : TRUE
       IN  IF found = {}
           THEN MergeBatch(lang, Tail(batch), existingRows,
                  [acc EXCEPT !.toUpsert = Append(acc.toUpsert, row),
                              !.inserted = acc.inserted + 1])
           ELSE IF ~CanUpgrade(row, existing)
           THEN MergeBatch(lang, Tail(batch), existingRows, acc)
           ELSE MergeBatch(lang, Tail(batch), existingRows,
                  [acc EXCEPT !.toUpsert = Append(acc.toUpsert, MergeExisting(lang, row, existing)),
                              !.updated = acc.updated + 1])

\* the synchronous start of a request: validation, then the first read
ImportStart(langRaw, payload) ==
  LET lang == IF normalizeLang(langRaw) # <<>> THEN normalizeLang(langRaw) ELSE En
      incoming == ImportDedupe(lang, payload, <<>>)
  IN  /\ imports' = Append(imports,
           [pc |-> IF incoming = <<>> THEN "done" ELSE "read", lang |-> lang,
            incoming |-> incoming, next |-> 1, toUpsert |-> <<>>, inserted |-> 0,
            updated |-> 0, rebuild |-> "none", checkedAt |-> 0])
      /\ UNCHANGED <<calls, runs, catalogSyncInFlight, syncState, catalog, counts, autoSync,
                     countsRebuildLastAt, now, cache>>

\* fetchExistingByIds of one batch answers; the batch is merged; after the last
\* batch the upserts start
ImportReadOk(k) ==
  LET m == imports[k]
      last == IF m.next + ImportBatchSize - 1 < Len(m.incoming)
              THEN m.next + ImportBatchSize - 1 ELSE Len(m.incoming)
      batch == SubSeq(m.incoming, m.next, last)
      ids == {batch[i].id : i \in 1..Len(batch)}
      acc == MergeBatch(m.lang, batch, {x \in catalog : x.id \in ids},
                        [toUpsert |-> m.toUpsert, inserted |-> m.inserted, updated |-> m.updated])
  IN  /\ m.pc = "read"
      /\ imports' = [imports EXCEPT
           ![k].toUpsert = acc.toUpsert, ![k].inserted = acc.inserted,
           ![k].updated = acc.updated,
           ![k].next = IF last < Len(m.incoming) THEN last + 1 ELSE 1,
           ![k].pc = IF last < Len(m.incoming) THEN "read"
                     ELSE IF acc.toUpsert = <<>> THEN "done" ELSE "upsert"]
      /\ UNCHANGED <<calls, runs, catalogSyncInFlight, syncState, catalog, counts, autoSync,
                     countsRebuildLastAt, now, cache>>

\* a datastore request of the import fails before the counts: answer 500
ImportFail(k) ==
  /\ imports[k].pc \in {"read", "upsert"}
  /\ imports' = [imports EXCEPT ![k].pc = "failed"]
  /\ UNCHANGED <<calls, runs, catalogSyncInFlight, syncState, catalog, counts, autoSync,
                 countsRebuildLastAt, now, cache>>

\* the entries of the overview cache of a language are deleted:
\* key.startsWith(`catalog:${lang}:`)
ClearOverview(entries, lang) ==
  LET prefix == <<"catalog", ":">> \o lang \o <<":">>
  IN  {e \in entries : SubSeq(e.key, 1, IF Len(e.key) < Len(prefix) THEN Len(e.key) ELSE Len(prefix)) # prefix}

\* one request of upsertCatalogItems(toUpsert) succeeds; after the last one the
\* overview cache of the language is cleared
ImportUpsertOk(k) ==
  LET m == imports[k]
      chunk == ChunkAt(m.toUpsert, m.next)
      next == m.next + ChunkSize
  IN  /\ m.pc = "upsert"
      /\ catalog' = UpsertChunk(catalog, chunk)
      /\ imports' = [imports EXCEPT ![k].next = next,
                                    ![k].pc = IF next > Len(m.toUpsert) THEN "counts" ELSE "upsert"]
      /\ cache' = IF next > Len(m.toUpsert) THEN ClearOverview(cache, m.lang) ELSE cache
      /\ UNCHANGED <<calls, runs, catalogSyncInFlight, syncState, counts, autoSync,
                     countsRebuildLastAt, now>>

\* the incremental update of the touched categories: each is counted and its
\* count upserted; a failure is logged and leaves categories not updated
ImportCounts(k, updatedCategories) ==
  LET m == imports[k]
      touched == {m.toUpsert[i].category : i \in 1..Len(m.toUpsert)}
      mine == {x \in catalog : x.lang_code = m.lang}
  IN  /\ m.pc = "counts"
      /\ updatedCategories \subseteq touched
      /\ counts' = [counts EXCEPT ![m.lang].category =
                      [c \in Categories |->
                         IF c \in updatedCategories
                         THEN Cardinality({x \in mine : x.category = c})
                         ELSE counts[m.lang].category[c]]]
      /\ imports' = [imports EXCEPT ![k].pc = "rebuild"]
      /\ UNCHANGED <<calls, runs, catalogSyncInFlight, syncState, catalog, autoSync,
                     countsRebuildLastAt, now, cache>>

\* a throttle that lets every rebuild through
RebuildAlways(t, last) == TRUE

\* now - last >= COUNTS_REBUILD_THROTTLE_MS
RebuildDue(t, last) == t - last >= COUNTS_REBUILD_THROTTLE_MS

\* the throttled full rebuild: skipped within the throttle window; otherwise the
\* window is taken before the rpc, whose failure is logged and ignored. The
\* request keeps whether it has called the rpc and when it has looked at the
\* throttle.
ImportRebuild(k, rpcOk) ==
  LET m == imports[k]
      last == countsRebuildLastAt[m.lang]
      due == RebuildDue(now, last)
  IN  /\ m.pc = "rebuild"
      /\ countsRebuildLastAt' = IF due THEN [countsRebuildLastAt EXCEPT ![m.lang] = now]
                                ELSE countsRebuildLastAt
      /\ counts' = IF due /\ rpcOk THEN [counts EXCEPT ![m.lang] = RebuildCounts(catalog, m.lang)]
                   ELSE counts
      /\ imports' = [imports EXCEPT
           ![k].pc = "done",
           ![k].rebuild = IF ~due THEN "skipped" ELSE IF rpcOk THEN "ok" ELSE "failed",
           ![k].checkedAt = now]
      /\ UNCHANGED <<calls, runs, catalogSyncInFlight, syncState, catalog, autoSync, now, cache>>

\* the categories of the rows an import has upserted
Touched(k) == {imports[k].toUpsert[i].category : i \in 1..Len(imports[k].toUpsert)}

ImportStep(k) ==
  \/ ImportReadOk(k)
  \/ ImportFail(k)
  \/ ImportUpsertOk(k)
  \/ \E u \in {{}, Touched(k)} : ImportCounts(k, u)
  \/ \E ok \in BOOLEAN : ImportRebuild(k, ok)

(***************************************************************************)
(* The catalog queries.                                                    *)
(***************************************************************************)
\* a query parameter that is not given (req.query.x is undefined)
Undefined == <<"undefined">>

Digits == <<"0", "1", "2", "3", "4", "5", "6", "7", "8", "9">>

IsDigit(c) == \E d \in 1..Len(Digits) : Digits[d] = c

DigitVal(c) == (CHOOSE d \in 1..Len(Digits) : Digits[d] = c) - 1

\* a JavaScript number: NaN, or an integer
NaN == [nan |-> TRUE, n |-> 0]

Num(n) == [nan |-> FALSE, n |-> n]

\* the digits at the head of s, as a number; NaN when there is none
RECURSIVE ParseDigits(_, _, _)
ParseDigits(s, acc, seen) ==
  IF s # <<>> /\ IsDigit(Head(s))
  THEN ParseDigits(Tail(s), acc * 10 + DigitVal(Head(s)), TRUE)
  ELSE IF seen THEN Num(acc) ELSE NaN

\* parseInt(raw, 10): leading white space, a sign, digits; the rest is ignored
parseInt(raw) ==
  LET s == TrimStart(raw)
  IN  IF s # <<>> /\ Head(s) = "-"
      THEN LET p == ParseDigits(Tail(s), 0, FALSE)
           IN  IF p.nan THEN NaN ELSE Num(0 - p.n)
      ELSE IF s # <<>> /\ Head(s) = "+"
           THEN ParseDigits(Tail(s), 0, FALSE)
           ELSE ParseDigits(s, 0, FALSE)

MinOf(a, b) == IF a < b THEN a ELSE b

MaxOf(a, b) == IF a > b THEN a ELSE b

clampInt(raw, min, max, fallback) ==
  LET n == IF raw = Undefined THEN NaN ELSE parseInt(raw)
  IN  IF n.nan THEN fallback ELSE MaxOf(min, MinOf(max, n.n))

\* queryLang ?? userLang ?? 'en', for a user without a translation language
QueryLang(langRaw) ==
  LET queryLang == IF langRaw = Undefined THEN <<>> ELSE normalizeLang(langRaw)
  IN  IF queryLang # <<>> THEN queryLang ELSE En

\* .order('source_popularity', {ascending: false, nullsFirst: false}): the
\* rows without popularity come last; rows of equal popularity are in one
\* fixed order (the second key, updated_at, is not part of the rows here)
RECURSIVE OrderByPopularity(_)
OrderByPopularity(S) ==
  IF S = {} THEN <<>>
  ELSE LET first == CHOOSE x \in S :
                      \A y \in S : x.source_popularity >= y.source_popularity
       IN  <<first>> \o OrderByPopularity(S \ {first})

\* .range(from, to) of an ordered result
Range(rows, from, to) ==
  IF from >= Len(rows) THEN <<>> ELSE SubSeq(rows, from + 1, MinOf(to + 1, Len(rows)))

\* the rows of ebook_catalog_category_counts of a language, by count descending
RECURSIVE OrderByCount(_)
OrderByCount(S) ==
  IF S = {} THEN <<>>
  ELSE LET first == CHOOSE x \in S : \A y \in S : x.count >= y.count
       IN  <<first>> \o OrderByCount(S \ {first})

CategoryCountRows(lang) ==
  OrderByCount({[category |-> c, count |-> counts[lang].category[c]] :
                  c \in {d \in DOMAIN counts[lang].category : counts[lang].category[d] > 0}})

AsciiLower ==
  {"a", "b", "c", "d", "e", "f", "g", "h", "i", "j", "k", "l", "m", "n", "o", "p", "q",
   "r", "s", "t", "u", "v", "w", "x", "y", "z"}

IsDigitOrLower(c) == c \in AsciiLower \/ IsDigit(c)

\* \p{L} or \p{N}, over the characters of the model
IsLetterOrNumber(c) ==
  \/ IsDigitOrLower(c)
  \/ \E i \in 1..Len(UpperChars) : UpperChars[i] = c
  \/ c \in {EAcuteLower, EAcuteUpper}

\* s.replace(/[^a-z0-9]+/g, ' ').replace(/\s+/g, ' ').trim()
KeepDigitsAndLower(s) ==
  Trim(CollapseSpaces([i \in 1..Len(s) |-> IF IsDigitOrLower(s[i]) THEN s[i] ELSE " "]))

\* s.replace(/[^\p{L}\p{N} ]+/gu, ' ').replace(/\s+/g, ' ').trim()
KeepLettersAndNumbers(s) ==
  Trim(CollapseSpaces([i \in 1..Len(s) |->
                         IF IsLetterOrNumber(s[i]) \/ s[i] = " " THEN s[i] ELSE " "]))

normalizeForLookup(value) ==
  LET raw == ToLowerCase(Trim(value))
  IN  IF raw = <<>> THEN <<>>
      ELSE KeepDigitsAndLower(StripMarks(Nfkd(raw)))

\* index of the first c of s at or after i, or Len(s) + 1
RECURSIVE IndexOf(_, _, _)
IndexOf(s, c, i) == IF i > Len(s) \/ s[i] = c THEN i ELSE IndexOf(s, c, i + 1)

\* index of the first MARC subfield fragment "$x" of s at or after i (a '$', a
\* letter, and then no word character), or Len(s) + 1
RECURSIVE IndexOfMarc(_, _)
IndexOfMarc(s, i) ==
  IF i > Len(s) THEN i
  ELSE IF /\ s[i] = "$"
          /\ i + 1 <= Len(s)
          /\ ToLowerChar(s[i + 1]) \in AsciiLower
          /\ (i + 2 > Len(s) \/ ~(IsLetterOrNumber(s[i + 2]) \/ s[i + 2] = "_"))
       THEN i
       ELSE IndexOfMarc(s, i + 1)

\* normalizeTitle decodes XML entities and trims; the titles of the model hold
\* no entity, so it trims
normalizeTitle(title) == Trim(title)

normalizeMainTitle(title) ==
  LET base == normalizeTitle(title)
      withoutMarc == TrimEnd(SubSeq(base, 1, IndexOfMarc(base, 1) - 1))
      beforeColon == SubSeq(withoutMarc, 1, IndexOf(withoutMarc, ":", 1) - 1)
  IN  IF base = <<>> THEN <<>> ELSE Trim(CollapseSpaces(beforeColon))

\* getEbooksSearch.normalizeSearchKey
normalizeSearchKey(value) == KeepLettersAndNumbers(normalizeForCatalogNorm(value))

\* getEbooksAuthor.normalizeAuthorKey; the authors of the model hold no
\* typographic apostrophe for normalizeApostrophes to replace
normalizeAuthorKey(value) == ToLowerCase(Trim(CollapseSpaces(value)))

\* column ILIKE '%want%', on a lower-case column and a lower-case want
Contains(s, want) ==
  \E i \in 0..(Len(s) - Len(want)) : SubSeq(s, i + 1, i + Len(want)) = want

\* 30 days and 6 hours, in seconds
COVER_CACHE_TTL_MS == 30 * 24 * 60 * 60

NEGATIVE_CACHE_TTL_MS == 6 * 60 * 60

MAX_ENRICH == 80

\* the source ids of the model that start with 'gutenberg:'
GutenbergSourceIds ==
  {"gutenberg:1", "gutenberg:2", "gutenberg:3", "gutenberg:4", "gutenberg:5", "gutenberg:6"}

\* what a request to OpenLibrary ends in: docs that match, docs that match
\* nothing, a response that is not ok, a network error or the timeout
OlOutcomes == {"match", "empty", "notOk", "failed"}

\* the title OpenLibrary answers with, for every book it matches
OlTitleRaw == <<"O", "l", ":", " ", "s">>

\* the key of getBetterOlMatch
OlKey(lang, title, author) ==
  lang \o Sep \o normalizeForLookup(normalizeMainTitle(title)) \o Sep \o normalizeForLookup(author)

\* toApiFromRow
toApiFromRow(r) ==
  [id |-> r.id, title |-> normalizeMainTitle(r.title), author |-> r.author,
   isGutenberg |-> r.source = "gutendex" \/ r.source_id \in GutenbergSourceIds]

\* enrichGutenbergTitlesWithOpenLibrary over the books of a page, which are
\* distinct by id. Each of the first MAX_ENRICH Gutenberg books is looked up
\* with getBetterOlMatch: a fresh cache entry answers; otherwise one request per
\* key goes to OpenLibrary (olInFlight shares it between the books of a key)
\* and its answer is cached: a match or no match for COVER_CACHE_TTL_MS, a
\* failed or timed-out request for NEGATIVE_CACHE_TTL_MS.
enrichGutenbergTitlesWithOpenLibrary(lang, books, outcome) ==
  LET candidates == SelectSeq(books, LAMBDA b : b.isGutenberg)
      deduped == SubSeq(candidates, 1, MinOf(MAX_ENRICH, Len(candidates)))
      picked == {deduped[i].id : i \in 1..Len(deduped)}
      Key(b) == OlKey(lang, b.title, b.author)
      Fresh(k) == {e \in olCache : e.key = k /\ e.expiresAt > now}
      requests == {Key(deduped[i]) : i \in {j \in 1..Len(deduped) : Fresh(Key(deduped[j])) = {}}}
      answer == IF outcome = "match" THEN normalizeMainTitle(OlTitleRaw) ELSE <<>>
      ttl == IF outcome = "failed" THEN NEGATIVE_CACHE_TTL_MS ELSE COVER_CACHE_TTL_MS
      MatchTitle(b) ==
        IF Key(b) \in requests THEN answer
        ELSE (CHOOSE e \in Fresh(Key(b)) : TRUE).title
      Enriched(b) ==
        IF b.id \in picked /\ MatchTitle(b) # <<>>
        THEN [b EXCEPT !.title = MatchTitle(b)] ELSE b
  IN  [items |-> [i \in 1..Len(books) |-> Enriched(books[i])],
       requests |-> requests,
       cache |-> {e \in olCache : e.key \notin requests}
                   \cup {[key |-> k, expiresAt |-> now + ttl, title |-> answer] : k \in requests}]

\* a null nextCursor; a number n is <<n>>
Null == <<>>

NoResp ==
  [op |-> "none", status |-> 0, cursor |-> 0, limit |-> 0, nextCursor |-> Null,
   items |-> <<>>, rows |-> 0, total |-> 0, requests |-> {}]

Items(books) == [i \in 1..Len(books) |-> [id |-> books[i].id, title |-> books[i].title]]

\* a response without a page: 400, 404, 500
ErrorResp(op, status) == [NoResp EXCEPT !.op = op, !.status = status]

CURSOR_MAX == 9999999

\* the rows of a language the item queries select from: download_url is not ''
Downloadable(lang) == {x \in catalog : x.lang_code = lang /\ x.download_url # ""}

\* getEbooksCategories; a datastore error is answered with 500
getEbooksCategories(langRaw, cursorRaw, limitRaw) ==
  LET lang == QueryLang(langRaw)
      cursor == clampInt(cursorRaw, 0, CURSOR_MAX, 0)
      limit == clampInt(limitRaw, MinLimit, 200, 60)
      rows == Range(CategoryCountRows(lang), cursor, cursor + limit - 1)
      items == [i \in 1..Len(rows) |-> [id |-> rows[i].category, title |-> <<>>]]
      nextCursor == IF Len(rows) >= limit THEN <<cursor + Len(rows)>> ELSE Null
  IN  /\ \E dbOk \in BOOLEAN :
           resp' = IF ~dbOk THEN ErrorResp("categories", 500)
                   ELSE [op |-> "categories", status |-> 200, cursor |-> cursor,
                         limit |-> limit, nextCursor |-> nextCursor, items |-> items,
                         rows |-> Len(rows), total |-> 0, requests |-> {}]
      /\ UNCHANGED olCache

\* the nextCursor of a page that is null when the page is short
NextCursorByLimit(total, cursor, len, limit) ==
  IF len >= limit THEN <<cursor + len>> ELSE Null

\* the nextCursor of getEbooksCategory and getEbooksAuthor
NextCursorByTotal(total, cursor, len, limit) ==
  IF total > 0 /\ cursor + len < total THEN <<cursor + len>> ELSE Null

\* the nextCursor of getEbooksSearch
NextCursorOfSearch(total, cursor, len, limit) ==
  IF total > 0 /\ cursor + len < total THEN <<cursor + len>>
  ELSE IF len >= limit THEN <<cursor + len>> ELSE Null

\* the page of a found category or author, or of a search, after enrichment;
\* OpenLibrary answers the requests of the page, if any, in one of OlOutcomes
PageResp(op, lang, slice, total, cursor, limit, nextCursor) ==
  LET asked == enrichGutenbergTitlesWithOpenLibrary(lang, slice, "empty").requests
  IN  \E outcome \in IF asked = {} THEN {"empty"} ELSE OlOutcomes :
        LET e == enrichGutenbergTitlesWithOpenLibrary(lang, slice, outcome)
        IN  /\ resp' = [op |-> op, status |-> 200, cursor |-> cursor, limit |-> limit,
                        nextCursor |-> nextCursor, items |-> Items(e.items),
                        rows |-> Len(slice),
                        total |-> IF total > 0 THEN total ELSE cursor + Len(slice),
                        requests |-> e.requests]
            /\ olCache' = e.cache

\* getEbooksCategory
getEbooksCategory(langRaw, categoryRaw, cursorRaw, limitRaw, allowEmpty) ==
  LET lang == QueryLang(langRaw)
      cursor == clampInt(cursorRaw, 0, CURSOR_MAX, 0)
      limit == clampInt(limitRaw, MinLimit, 100, 40)
      total == IF categoryRaw \in DOMAIN counts[lang].category
               THEN counts[lang].category[categoryRaw] ELSE 0
      found == OrderByPopularity({x \in Downloadable(lang) : x.category = categoryRaw})
      range == Range(found, cursor, cursor + limit - 1)
      slice == [i \in 1..Len(range) |-> toApiFromRow(range[i])]
  IN  IF categoryRaw = ""
      THEN resp' = ErrorResp("category", 400) /\ UNCHANGED olCache
      ELSE \/ resp' = ErrorResp("category", 500) /\ UNCHANGED olCache
           \/ IF slice = <<>>
              THEN /\ resp' = IF allowEmpty
                              THEN [ErrorResp("category", 200) EXCEPT
                                      !.cursor = cursor, !.limit = limit]
                              ELSE ErrorResp("category", 404)
                   /\ UNCHANGED olCache
              ELSE PageResp("category", lang, slice, total, cursor, limit,
                            NextCursorByTotal(total, cursor, Len(slice), limit))

\* getEbooksAuthor
getEbooksAuthor(langRaw, authorRaw, cursorRaw, limitRaw) ==
  LET lang == QueryLang(langRaw)
      author == IF authorRaw = Undefined THEN <<>> ELSE Trim(authorRaw)
      cursor == clampInt(cursorRaw, 0, CURSOR_MAX, 0)
      limit == clampInt(limitRaw, MinLimit, 100, 40)
      wantNorm == normalizeForCatalogNorm(normalizeAuthorKey(author))
      total == IF wantNorm \in DOMAIN counts[lang].author
               THEN counts[lang].author[wantNorm] ELSE 0
      found == OrderByPopularity({x \in Downloadable(lang) : x.author_norm = wantNorm})
      range == Range(found, cursor, cursor + limit - 1)
      slice == [i \in 1..Len(range) |-> toApiFromRow(range[i])]
  IN  IF author = <<>>
      THEN resp' = ErrorResp("author", 400) /\ UNCHANGED olCache
      ELSE \/ resp' = ErrorResp("author", 500) /\ UNCHANGED olCache
           \/ IF slice = <<>>
              THEN resp' = ErrorResp("author", 404) /\ UNCHANGED olCache
              ELSE PageResp("author", lang, slice, total, cursor, limit,
                            NextCursorByTotal(total, cursor, Len(slice), limit))

\* getEbooksSearch; the total is the exact count of the rows that match
getEbooksSearch(langRaw, qInput, cursorRaw, limitRaw) ==
  LET lang == QueryLang(langRaw)
      qRaw == IF qInput = Undefined THEN <<>> ELSE Trim(qInput)
      cursor == clampInt(cursorRaw, 0, CURSOR_MAX, 0)
      limit == clampInt(limitRaw, MinLimit, 100, 40)
      want == normalizeSearchKey(qRaw)
      matching == {x \in Downloadable(lang) :
                     Contains(x.title_norm, want) \/ Contains(x.author_norm, want)}
      range == Range(OrderByPopularity(matching), cursor, cursor + limit - 1)
      slice == [i \in 1..Len(range) |-> toApiFromRow(range[i])]
      total == Cardinality(matching)
  IN  IF Len(qRaw) < 2
      THEN resp' = ErrorResp("search", 400) /\ UNCHANGED olCache
      ELSE IF want = <<>>
      THEN /\ resp' = [ErrorResp("search", 200) EXCEPT !.cursor = cursor, !.limit = limit]
           /\ UNCHANGED olCache
      ELSE \/ resp' = ErrorResp("search", 500) /\ UNCHANGED olCache
           \/ PageResp("search", lang, slice, total, cursor, limit,
                       NextCursorOfSearch(total, cursor, Len(slice), limit))

\* a time of day of the process, later than every time to live of the code
StartTime == 100 * 24 * 60 * 60

InitSync ==
  /\ calls = <<>>
  /\ runs = <<>>
  /\ catalogSyncInFlight = [l \in Langs |-> 0]
  /\ syncState = [l \in Langs |-> NoSyncState]
  /\ catalog = {}
  /\ counts = [l \in Langs |-> NoCounts]
  /\ autoSync = <<>>
  /\ imports = <<>>
  /\ countsRebuildLastAt = [l \in Langs |-> 0]
  /\ now = StartTime
  /\ resp = NoResp
  /\ olCache = {}
  /\ InitManyBooks
  /\ InitCaches
  /\ InitNet

\* the source failures of the specification of the sync calls: none, or all
SomeFailures == [lang \in Langs \cup {<<>>} |-> {{}, ApplicableSources(lang)}]

\* any of the sources of a language fail
AnyFailures == [lang \in Langs \cup {<<>>} |-> SUBSET ApplicableSources(lang)]

\* the steps of a run
RunStep(r, failures) ==
  \/ RunningWriteOk(r)
  \/ RunningWriteFail(r)
  \/ \E f \in failures[runs[r].lang] : Fetched(r, f)
  \/ UpsertOk(r)
  \/ UpsertFail(r)
  \/ \E ok \in BOOLEAN : Rebuild(r, ok)
  \/ IdleWriteOk(r)
  \/ IdleWriteFail(r)
  \/ ErrorWriteOk(r)
  \/ ErrorWriteFail(r)

\* a sync called when no run is executing
SeqSync(langRaw) ==
  /\ \A r \in CallIds : ~Executing(r)
  /\ DoSyncCall(langRaw)
  /\ UNCHANGED <<syncState, catalog, counts, autoSync, imports, countsRebuildLastAt, now>>

Init == InitSync /\ NoArgs

Next ==
  \/ \E l \in LangInputs : ManualSync(l) /\ UNCHANGED <<queryVars, mbVars, cacheVars, fnVars, netVars>>
  \/ AutoTick /\ UNCHANGED <<queryVars, mbVars, cacheVars, fnVars, netVars>>
  \/ \E t \in 1..Len(autoSync) : AutoNext(t) /\ UNCHANGED <<queryVars, mbVars, cacheVars, fnVars, netVars>>
  \/ \E r \in CallIds : RunStep(r, SomeFailures) /\ UNCHANGED <<queryVars, mbVars, cacheVars, fnVars, netVars>>

Spec == Init /\ [][Next]_vars

\* every datastore call of a run returns or fails
StoreSteps ==
  \E r \in CallIds :
    /\ \/ RunningWriteOk(r)
       \/ RunningWriteFail(r)
       \/ UpsertOk(r)
       \/ UpsertFail(r)
       \/ \E ok \in BOOLEAN : Rebuild(r, ok)
       \/ IdleWriteOk(r)
       \/ IdleWriteFail(r)
       \/ ErrorWriteOk(r)
       \/ ErrorWriteFail(r)
    /\ UNCHANGED <<queryVars, mbVars, cacheVars, fnVars, netVars>>

\* the fetches of a run are awaited, and have settled
Fetching == \E r \in CallIds : runs[r].pc = "fetch"

FetchSteps == \E r \in CallIds : runs[r].pc = "fetch" /\ runs'[r].pc # "fetch"

\* every fetch returns or fails (each is bounded by a timeout): weak fairness
\* of Fetched, which is enabled exactly while a run awaits its fetches
FetchesSettle == <>[]Fetching => []<><<FetchSteps>>_vars

\* the languages of the sync calls whose settlement is followed
LiveLangs == {En, De}

\* sync calls at any moment, and the steps of their runs
NextLive ==
  \/ \E l \in LiveLangs : ManualSync(l) /\ UNCHANGED <<queryVars, mbVars, cacheVars, fnVars, netVars>>
  \/ \E r \in CallIds : RunStep(r, SomeFailures) /\ UNCHANGED <<queryVars, mbVars, cacheVars, fnVars, netVars>>

SpecLive == Init /\ [][NextLive]_vars /\ WF_vars(StoreSteps) /\ FetchesSettle

\* the catalog data: syncs one after the other, imports at any moment
NextData ==
  \/ \E l \in {En} : Len(calls) + Len(imports) < MaxOps /\ SeqSync(l) /\ UNCHANGED <<queryVars, mbVars, cacheVars, fnVars, netVars>>
  \/ \E r \in CallIds : RunStep(r, SomeFailures) /\ UNCHANGED <<queryVars, mbVars, cacheVars, fnVars, netVars>>
  \/ \E p \in ImportPayloads :
       Len(calls) + Len(imports) < MaxOps /\ ImportStart(En, p) /\ UNCHANGED <<queryVars, mbVars, otherCaches, fnVars, netVars>>
  \/ \E k \in 1..Len(imports) : ImportStep(k) /\ UNCHANGED <<queryVars, mbVars, otherCaches, fnVars, netVars>>

SpecData == Init /\ [][NextData]_vars

\* the clock of the imports, which is looked at around the end of a throttle
\* window: it advances to `before` seconds before the window of a language ends
ImportTick(before) ==
  /\ \E l \in Langs :
       /\ now < countsRebuildLastAt[l] + COUNTS_REBUILD_THROTTLE_MS - before
       /\ now' = countsRebuildLastAt[l] + COUNTS_REBUILD_THROTTLE_MS - before
  /\ UNCHANGED <<dataVars, cache>>

\* the import requests of a language, interleaved, while time passes
NextImport ==
  \/ \E l \in {En, De}, p \in ImportPayloads :
       Len(imports) < MaxImports /\ ImportStart(l, p) /\ UNCHANGED <<queryVars, mbVars, otherCaches, fnVars, netVars>>
  \/ \E k \in 1..Len(imports) : ImportStep(k) /\ UNCHANGED <<queryVars, mbVars, otherCaches, fnVars, netVars>>
  \/ \E before \in {0, 1} : ImportTick(before) /\ UNCHANGED <<queryVars, mbVars, otherCaches, fnVars, netVars>>

SpecImport == Init /\ [][NextImport]_vars


(***************************************************************************)
(* The queries, over catalogs large enough for full pages.                 *)
(***************************************************************************)
Repeat(c, n) == [k \in 1..n |-> c]

\* the i-th Fiction book of author X: the first two come from Gutendex, the
\* others were imported; every one has its own popularity
FictionBook(i, category) ==
  IF i <= 2
  THEN Bk(IF i = 1 THEN "gutenberg:1" ELSE "gutenberg:2",
          IF i = 1 THEN <<"b", ":", " ", "s">> ELSE Repeat("b", i), <<"X">>, category,
          "cover", "dl", "gutendex", 1000 - i)
  ELSE Bk("", Repeat("b", i), <<"X">>, category, "cover", "dl", "manybooks", 1000 - i)

\* the j-th book of author Y, alone in its category
OtherBook(j) ==
  Bk("se:1", Repeat("c", j), <<"Y">>, "Category " \o ToString(j), "cover", "dl",
     "standardebooks", NoPop)

\* a catalog of n books of each kind; `moved`: the last Fiction book has since
\* been recategorized as Drama
QueryCatalog(n, moved) ==
  {CatalogRow(En, FictionBook(i, IF moved /\ i = n THEN "Drama" ELSE "Fiction"), 0) : i \in 1..n}
    \cup {CatalogRow(En, OtherBook(j), 0) : j \in 1..n}

QuerySizes == 0..(MinLimit + 1)

\* how the counts of a catalog were built: by no rebuild yet, by a rebuild of
\* the current rows, by the last rebuild that succeeded (before the last books
\* were added, or before the last book was recategorized)
InitQuery ==
  \E n \in QuerySizes, built \in {"never", "current", "behind", "moved"} :
    /\ built \in {"behind", "moved"} => n > 0
    /\ calls = <<>>
    /\ runs = <<>>
    /\ catalogSyncInFlight = [l \in Langs |-> 0]
    /\ syncState = [l \in Langs |-> NoSyncState]
    /\ catalog = QueryCatalog(n, built = "moved")
    /\ counts = [l \in Langs |->
                   IF l # En \/ built = "never" THEN NoCounts
                   ELSE IF built = "behind" THEN RebuildCounts(QueryCatalog(n - 1, FALSE), En)
                   ELSE RebuildCounts(QueryCatalog(n, FALSE), En)]
    /\ autoSync = <<>>
    /\ imports = <<>>
    /\ countsRebuildLastAt = [l \in Langs |-> 0]
    /\ now = StartTime
    /\ resp = NoResp
    /\ olCache = {}
    /\ InitManyBooks
    /\ InitCaches
    /\ InitNet
    /\ NoArgs

QueryLangs == {Undefined, De}

CursorInputs == {Undefined, <<"1">>, <<"-", "3">>, <<"9">>}

\* no limit, a limit below the least one, the limit after the least one
LimitInputs == {Undefined, <<"1">>, <<Digits[MinLimit + 2]>>}

\* the client has read the response and may ask again
Deliver ==
  /\ resp.op # "none"
  /\ resp' = NoResp
  /\ UNCHANGED olCache

\* one client, which asks again after it has read the response
NextQuery ==
  \/ \E l \in QueryLangs, c \in CursorInputs, n \in LimitInputs :
       resp.op = "none" /\ getEbooksCategories(l, c, n) /\ UNCHANGED <<syncVars, mbVars, cacheVars, fnVars, netVars>>
  \/ \E l \in QueryLangs, k \in {"", "Fiction", "Category 1", "Poetry"},
        c \in CursorInputs, n \in LimitInputs, e \in BOOLEAN :
       resp.op = "none" /\ getEbooksCategory(l, k, c, n, e) /\ UNCHANGED <<syncVars, mbVars, cacheVars, fnVars, netVars>>
  \/ \E l \in QueryLangs, a \in {Undefined, <<" ", "x">>, <<"Y">>, <<"e">>},
        c \in CursorInputs, n \in LimitInputs :
       resp.op = "none" /\ getEbooksAuthor(l, a, c, n) /\ UNCHANGED <<syncVars, mbVars, cacheVars, fnVars, netVars>>
  \/ \E l \in QueryLangs, q \in {<<"b">>, <<"B", "b">>, <<"-", "-">>, <<"d", "d">>},
        c \in CursorInputs, n \in LimitInputs :
       resp.op = "none" /\ getEbooksSearch(l, q, c, n) /\ UNCHANGED <<syncVars, mbVars, cacheVars, fnVars, netVars>>
  \/ Deliver /\ UNCHANGED <<syncVars, mbVars, cacheVars, fnVars, netVars>>

SpecQuery == InitQuery /\ [][NextQuery]_vars

\* a client that walks one listing: it asks without a cursor and then, while
\* the nextCursor of the last page is not null, with that nextCursor
Walks ==
  {[op |-> "categories", category |-> "", author |-> <<>>, q |-> <<>>, limit |-> n] : n \in LimitInputs}
    \cup {[op |-> "category", category |-> k, author |-> <<>>, q |-> <<>>, limit |-> n] :
            k \in {"Fiction", "Category 1", "Poetry"}, n \in LimitInputs}
    \cup {[op |-> "author", category |-> "", author |-> a, q |-> <<>>, limit |-> n] :
            a \in {<<" ", "x">>, <<"Y">>}, n \in LimitInputs}
    \cup {[op |-> "search", category |-> "", author |-> <<>>, q |-> k, limit |-> n] :
            k \in {<<"B", "b">>, <<"d", "d">>}, n \in LimitInputs}

WalkCall(w, cursorRaw) ==
  \/ w.op = "categories" /\ getEbooksCategories(Undefined, cursorRaw, w.limit)
  \/ w.op = "category" /\ getEbooksCategory(Undefined, w.category, cursorRaw, w.limit, FALSE)
  \/ w.op = "author" /\ getEbooksAuthor(Undefined, w.author, cursorRaw, w.limit)
  \/ w.op = "search" /\ getEbooksSearch(Undefined, w.q, cursorRaw, w.limit)

ItemIds(r) == [i \in 1..Len(r.items) |-> r.items[i].id]

WalkStart(w) ==
  /\ args = <<>>
  /\ args' = <<w>>
  /\ WalkCall(w, Undefined)
  /\ returned' = ItemIds(resp')

WalkNext ==
  /\ args # <<>>
  /\ resp.status = 200
  /\ resp.nextCursor # Null
  /\ WalkCall(args[1], <<Digits[resp.nextCursor[1] + 1]>>)
  /\ returned' = returned \o ItemIds(resp')
  /\ UNCHANGED args

NextWalk ==
  \/ \E w \in Walks : WalkStart(w) /\ UNCHANGED <<syncVars, mbVars, cacheVars, netVars>>
  \/ WalkNext /\ UNCHANGED <<syncVars, mbVars, cacheVars, netVars>>

SpecWalk == InitQuery /\ [][NextWalk]_vars

(***************************************************************************)
(* fetchManyBooks and the block on ManyBooks.                              *)
(***************************************************************************)
\* 60 * 60 * 1000 ms, in seconds
MANYBOOKS_BLOCK_TTL_MS == 60 * 60

\* the title_detail links the listing yields
DetailLinks == {"title_detail/1"}

\* what a request to ManyBooks ends in: a response (its status, and whether it
\* looks like an HTML page), or "thrown" for a network error or the timeout
MbResponses ==
  {[kind |-> "response", status |-> 200, looksHtml |-> FALSE],
   [kind |-> "response", status |-> 200, looksHtml |-> TRUE],
   [kind |-> "response", status |-> 403, looksHtml |-> FALSE],
   [kind |-> "response", status |-> 429, looksHtml |-> FALSE],
   [kind |-> "response", status |-> 500, looksHtml |-> FALSE],
   [kind |-> "thrown", status |-> 0, looksHtml |-> FALSE]}

\* the block signals of an answer: `!resp.ok || looksHtml`; a request that
\* throws has no answer
BlockSignal(r) ==
  r.kind = "response" /\ (r.looksHtml \/ r.status < 200 \/ r.status > 299)

\* a guard that never holds calls back
manyBooksNeverBlocked(t, until) == FALSE

\* Date.now() < manyBooksBlockedUntil
manyBooksBlocked(t, until) == t < until

\* fetchManyBooksXml, from the response on: the text is returned ("xml"), or
\* the request has failed with a status, which opens the block when it is 403
\* or 429
XmlOutcome(r) ==
  LET ok == r.status >= 200 /\ r.status <= 299
      status == IF r.looksHtml THEN 403 ELSE r.status
  IN  IF r.kind = "thrown" THEN [xml |-> FALSE, blocks |-> FALSE]
      ELSE IF ~ok \/ r.looksHtml THEN [xml |-> FALSE, blocks |-> status \in {403, 429}]
      ELSE [xml |-> TRUE, blocks |-> FALSE]

\* the block a response opens, and the time it was observed
Observe(r) ==
  /\ manyBooksBlockedUntil' =
       IF XmlOutcome(r).blocks THEN now + MANYBOOKS_BLOCK_TTL_MS ELSE manyBooksBlockedUntil
  /\ lastBlockAt' = IF XmlOutcome(r).blocks THEN now ELSE lastBlockAt

\* fetchManyBooks(lang, limit) up to its first await: an empty list while the
\* block lasts; otherwise the request for the genres is sent
fetchManyBooks ==
  /\ Len(mbCalls) < MaxMBCalls
  /\ mbCalls' = Append(mbCalls,
       IF manyBooksBlocked(now, manyBooksBlockedUntil)
       THEN [at |-> now, lastBlock |-> lastBlockAt, pc |-> "done", requests |-> 0,
             pending |-> {}, result |-> "returned", books |-> 0, signal |-> FALSE]
       ELSE [at |-> now, lastBlock |-> lastBlockAt, pc |-> "genres", requests |-> 1,
             pending |-> {}, result |-> "pending", books |-> 0, signal |-> FALSE])
  /\ UNCHANGED <<manyBooksBlockedUntil, lastBlockAt, now>>

\* the genres or a listing page arrive: a failure rejects the call; otherwise
\* the next request is made, which throws without a request while the block
\* lasts. The detail requests of a listing are made together, each caught.
MbListing(c, r) ==
  LET m == mbCalls[c]
      blocked == manyBooksBlocked(now, manyBooksBlockedUntil')
  IN  /\ m.pc \in {"genres", "page"}
      /\ Observe(r)
      /\ mbCalls' = [mbCalls EXCEPT ![c] =
           IF ~XmlOutcome(r).xml \/ (m.pc = "genres" /\ blocked)
           THEN [m EXCEPT !.pc = "done", !.result = "raised", !.signal = BlockSignal(r)]
           ELSE IF m.pc = "genres"
           THEN [m EXCEPT !.pc = "page", !.requests = m.requests + 1, !.signal = BlockSignal(r)]
           ELSE IF blocked
           THEN [m EXCEPT !.pc = "done", !.result = "returned", !.signal = BlockSignal(r)]
           ELSE [m EXCEPT !.pc = "details",
                          !.requests = m.requests + Cardinality(DetailLinks),
                          !.pending = DetailLinks, !.signal = BlockSignal(r)]]
      /\ UNCHANGED now

\* a title detail arrives, or its request fails, which is caught
MbDetail(c, link, r) ==
  LET m == mbCalls[c]
      got == IF XmlOutcome(r).xml THEN 1 ELSE 0
  IN  /\ m.pc = "details"
      /\ link \in m.pending
      /\ Observe(r)
      /\ mbCalls' = [mbCalls EXCEPT ![c] =
           IF m.pending = {link}
           THEN [m EXCEPT !.pc = "done", !.result = "returned", !.pending = {},
                          !.books = m.books + got, !.signal = BlockSignal(r)]
           ELSE [m EXCEPT !.pending = m.pending \ {link}, !.books = m.books + got,
                          !.signal = BlockSignal(r)]]
      /\ UNCHANGED now

\* the clock, which is looked at around the end of a block: it advances to
\* `before` seconds before the time the block ends
Tick(before) ==
  /\ now < manyBooksBlockedUntil - before
  /\ now' = manyBooksBlockedUntil - before
  /\ UNCHANGED <<manyBooksBlockedUntil, mbCalls, lastBlockAt>>

NextManyBooks ==
  \/ fetchManyBooks /\ UNCHANGED <<dataVars, queryVars, cacheVars, fnVars, netVars>>
  \/ \E c \in 1..Len(mbCalls), r \in MbResponses :
       MbListing(c, r) /\ UNCHANGED <<dataVars, queryVars, cacheVars, fnVars, netVars>>
  \/ \E c \in 1..Len(mbCalls), link \in DetailLinks, r \in MbResponses :
       MbDetail(c, link, r) /\ UNCHANGED <<dataVars, queryVars, cacheVars, fnVars, netVars>>
  \/ \E before \in {0, 1} : Tick(before) /\ UNCHANGED <<dataVars, queryVars, cacheVars, fnVars, netVars>>

SpecManyBooks == Init /\ [][NextManyBooks]_vars

\* the title details of a listing with more candidates than workers:
\* mapWithConcurrency(uniqCandidates, 6, ...)
DetailConcurrency == 6

\* a worker that sends the next request whatever the block says
RECURSIVE DetailTakeSend(_, _)
DetailTakeSend(m, until) ==
  IF m.next >= Len(m.details) THEN m
  ELSE [m EXCEPT !.next = m.next + 1, !.details[m.next + 1] = "sent",
                 !.pending = m.pending \cup {m.next + 1}, !.requests = m.requests + 1]

\* a worker takes the next candidate: fetchManyBooksXml throws without a
\* request while the block lasts, which is caught (null) and the worker goes
\* on to the next one; otherwise the request is sent and awaited. A worker
\* that finds no candidate left ends.
RECURSIVE DetailTake(_, _)
DetailTake(m, until) ==
  IF m.next >= Len(m.details) THEN m
  ELSE IF manyBooksBlocked(now, until)
  THEN DetailTake([m EXCEPT !.next = m.next + 1, !.details[m.next + 1] = "skipped"], until)
  ELSE [m EXCEPT !.next = m.next + 1, !.details[m.next + 1] = "sent",
                 !.pending = m.pending \cup {m.next + 1}, !.requests = m.requests + 1]

RECURSIVE DetailStart(_, _, _)
DetailStart(m, w, until) ==
  IF w > DetailConcurrency THEN m ELSE DetailStart(DetailTake(m, until), w + 1, until)

\* Promise.all resolves when no worker awaits a detail; the call returns
DetailsReturn(m) ==
  IF m.pending = {} THEN [m EXCEPT !.pc = "done", !.result = "returned"] ELSE m

\* the listings of a call have yielded n distinct title_detail links (two
\* requests so far, for the genres and for one page): the workers start
MbListed(n) ==
  /\ mbCalls = <<>>
  /\ mbCalls' = <<DetailsReturn(DetailStart(
       [at |-> now, lastBlock |-> lastBlockAt, pc |-> "details", requests |-> 2,
        pending |-> {}, result |-> "pending", books |-> 0,
        details |-> [i \in 1..n |-> "new"], next |-> 0, blockSeen |-> FALSE],
       1, manyBooksBlockedUntil))>>
  /\ UNCHANGED <<manyBooksBlockedUntil, lastBlockAt, now>>

\* the title detail of candidate i arrives, or its request fails, which is
\* caught; its worker goes round its loop
MbDetailOf(c, i, r) ==
  LET m == mbCalls[c]
      got == IF XmlOutcome(r).xml THEN 1 ELSE 0
      settled == [m EXCEPT !.pending = m.pending \ {i},
                           !.details[i] = IF XmlOutcome(r).xml THEN "parsed" ELSE "failed",
                           !.books = m.books + got,
                           !.blockSeen = m.blockSeen \/ XmlOutcome(r).blocks]
  IN  /\ m.pc = "details"
      /\ i \in m.pending
      /\ Observe(r)
      /\ mbCalls' = [mbCalls EXCEPT ![c] = DetailsReturn(DetailTake(settled, manyBooksBlockedUntil'))]
      /\ UNCHANGED now

DetailCounts == {0, 1} \cup DetailConcurrency..(DetailConcurrency + MaxMoreDetails)

NextDetails ==
  \/ \E n \in DetailCounts :
       MbListed(n) /\ UNCHANGED <<dataVars, queryVars, cacheVars, fnVars, netVars>>
  \/ \E c \in 1..Len(mbCalls), i \in 1..(DetailConcurrency + MaxMoreDetails), r \in MbResponses :
       MbDetailOf(c, i, r) /\ UNCHANGED <<dataVars, queryVars, cacheVars, fnVars, netVars>>

SpecDetails == Init /\ [][NextDetails]_vars

(***************************************************************************)
(* The caches: the overview responses of getEbooks, the aggregated pool    *)
(* and the OpenLibrary matches.                                            *)
(***************************************************************************)
\* 10 * 60 * 1000 ms, in seconds
CACHE_TTL_MS == 10 * 60

\* Map.get of a cache that has no entry for the key
NoEntry == [key |-> <<>>, expiresAt |-> 0, value |-> <<>>]

\* cache.get(key)
CacheGet(entries, key) ==
  IF \E e \in entries : e.key = key THEN CHOOSE e \in entries : e.key = key ELSE NoEntry

\* cache.set(key, entry)
CacheSet(entries, entry) == {e \in entries : e.key # entry.key} \cup {entry}

\* an entry that still answers at the time it expires
CacheFreshAtExpiry(cached, t) == cached # NoEntry /\ cached.expiresAt >= t

\* cached && cached.expiresAt > now
CacheFresh(cached, t) == cached # NoEntry /\ cached.expiresAt > t

\* a Map of promises in which no promise is ever found
FlightNever(map, key) == 0

\* poolInFlight.get(key), olInFlight.get(key): the work stored, or 0
FlightGet(map, key) ==
  IF \E f \in map : f.key = key THEN (CHOOSE f \in map : f.key = key).work ELSE 0

\* the computations of a cache for a key that have started and not settled
Computing(name, key) ==
  {w \in 1..Len(lookups) :
     /\ lookups[w].cache = name /\ lookups[w].key = key
     /\ lookups[w].work = w /\ lookups[w].pc = "waiting"}

\* a call: the entry it found (seen), the computation whose promise it awaits
\* (work; 0: none, it answers from the cache), and what it returns
Lookup(name, key, cached, work) ==
  [cache |-> name, key |-> key, at |-> now, seen |-> cached, work |-> work,
   saw |-> Computing(name, key),
   pc |-> IF work = 0 THEN "done" ELSE "waiting",
   outcome |-> IF work = 0 THEN "value" ELSE "pending",
   value |-> IF work = 0 THEN cached.value ELSE <<>>,
   upstream |-> ""]

\* the callers that await the promise of work w get its outcome
Resolve(w, outcome, value) ==
  [l \in 1..Len(lookups) |->
     IF lookups[l].work = w /\ lookups[l].pc = "waiting"
     THEN [lookups[l] EXCEPT !.pc = "done", !.outcome = outcome, !.value = value]
     ELSE lookups[l]]

\* getAggregatedPool(lang, opts) up to its first await
getAggregatedPool(lang, pool) ==
  LET key == lang \o <<":">> \o pool
      cached == CacheGet(poolCache, key)
      inFlight == FlightGet(poolInFlight, key)
      l == Len(lookups) + 1
  IN  /\ Len(lookups) < MaxLookups
      /\ IF CacheFresh(cached, now)
         THEN /\ lookups' = Append(lookups, Lookup("pool", key, cached, 0))
              /\ UNCHANGED poolInFlight
         ELSE IF inFlight # 0
         THEN /\ lookups' = Append(lookups, Lookup("pool", key, cached, inFlight))
              /\ UNCHANGED poolInFlight
         ELSE /\ lookups' = Append(lookups, Lookup("pool", key, cached, l))
              /\ poolInFlight' = poolInFlight \cup {[key |-> key, work |-> l]}
      /\ UNCHANGED <<cache, poolCache, olInFlight, olCache, now>>

\* a settlement whose failure leaves the Map entry of the key
PoolSettleKeep(w, ok) ==
  LET key == lookups[w].key
      data == <<"pool generated by ", ToString(w)>>
  IN  /\ w \in Computing("pool", key)
      /\ poolCache' = IF ok THEN CacheSet(poolCache, [key |-> key,
                                                     expiresAt |-> now + CACHE_TTL_MS,
                                                     value |-> data])
                      ELSE poolCache
      /\ lookups' = IF ok THEN Resolve(w, "value", data) ELSE Resolve(w, "error", <<>>)
      /\ poolInFlight' = IF ok THEN {f \in poolInFlight : f.key # key} ELSE poolInFlight
      /\ UNCHANGED <<cache, olInFlight, olCache, now>>

\* `work` of getAggregatedPool settles: fetchAggregatedPool has returned the
\* pool, which is cached from now on, or has thrown (Gutendex cannot be
\* reached); the callers resume and the finally of the first one deletes the
\* Map entry
PoolSettle(w, ok) ==
  LET key == lookups[w].key
      data == <<"pool generated by ", ToString(w)>>
  IN  /\ w \in Computing("pool", key)
      /\ poolCache' = IF ok THEN CacheSet(poolCache, [key |-> key,
                                                     expiresAt |-> now + CACHE_TTL_MS,
                                                     value |-> data])
                      ELSE poolCache
      /\ lookups' = IF ok THEN Resolve(w, "value", data) ELSE Resolve(w, "error", <<>>)
      /\ poolInFlight' = {f \in poolInFlight : f.key # key}
      /\ UNCHANGED <<cache, olInFlight, olCache, now>>

\* the entry of olCache for a key, its title being the value
OlEntry(key) ==
  LET e == CacheGet(olCache, key)
  IN  IF e.key = <<>> THEN NoEntry
      ELSE [key |-> e.key, expiresAt |-> e.expiresAt, value |-> e.title]

\* getBetterOlMatch(lang, title, author) up to its first await, which is in
\* fetchOpenLibraryMatch: the promise is stored before it can settle
getBetterOlMatch(lang, title, author) ==
  LET key == OlKey(lang, title, author)
      cached == OlEntry(key)
      inflight == FlightGet(olInFlight, key)
      l == Len(lookups) + 1
  IN  /\ Len(lookups) < MaxLookups
      /\ IF CacheFresh(cached, now)
         THEN /\ lookups' = Append(lookups, Lookup("ol", key, cached, 0))
              /\ UNCHANGED olInFlight
         ELSE IF inflight # 0
         THEN /\ lookups' = Append(lookups, Lookup("ol", key, cached, inflight))
              /\ UNCHANGED olInFlight
         ELSE /\ lookups' = Append(lookups, Lookup("ol", key, cached, l))
              /\ olInFlight' = olInFlight \cup {[key |-> key, work |-> l]}
      /\ UNCHANGED <<cache, poolCache, poolInFlight, olCache, now>>

\* the promise of getBetterOlMatch settles: the answer of OpenLibrary is cached
\* from the time of the call on; a request that failed is caught, cached for
\* the short time and answered with nulls; the Map entry is deleted
OlSettle(w, outcome) ==
  LET key == lookups[w].key
      title == IF outcome = "match" THEN normalizeMainTitle(OlTitleRaw) ELSE <<>>
      ttl == IF outcome = "failed" THEN NEGATIVE_CACHE_TTL_MS ELSE COVER_CACHE_TTL_MS
  IN  /\ w \in Computing("ol", key)
      /\ olCache' = CacheSet(olCache, [key |-> key, expiresAt |-> lookups[w].at + ttl,
                                       title |-> title])
      /\ lookups' = [Resolve(w, "value", title) EXCEPT ![w].upstream = outcome]
      /\ olInFlight' = {f \in olInFlight : f.key # key}
      /\ UNCHANGED <<cache, poolCache, poolInFlight, now>>

\* getEbooks up to its first await: a fresh entry of `cache` is the response;
\* otherwise the overview is read from the datastore
getEbooks(langRaw, perCategoryRaw) ==
  LET lang == QueryLang(langRaw)
      perCategory == clampInt(perCategoryRaw, 6, 24, 12)
      trendingLimit == clampInt(Undefined, 6, 24, 12)
      maxCategories == clampInt(Undefined, 6, 32, 14)
      cacheKey == <<"catalog", ":">> \o lang
                    \o <<":", ToString(perCategory), ":", ToString(trendingLimit),
                         ":", ToString(maxCategories)>>
      cached == CacheGet(cache, cacheKey)
      l == Len(lookups) + 1
  IN  /\ Len(lookups) < MaxLookups
      /\ lookups' = Append(lookups, Lookup("overview", cacheKey, cached,
                                           IF CacheFresh(cached, now) THEN 0 ELSE l))
      /\ UNCHANGED <<cache, poolCache, poolInFlight, olInFlight, olCache, now>>

\* the reads of getEbooks have answered: the response is cached from the time
\* of the request on and sent; a failed read is answered with 500. The catalog
\* of this specification is empty, so the overview holds no book to enrich.
OverviewSettle(l, ok) ==
  LET key == lookups[l].key
      data == <<"overview generated by ", ToString(l)>>
  IN  /\ l \in Computing("overview", key)
      /\ cache' = IF ok THEN CacheSet(cache, [key |-> key,
                                             expiresAt |-> lookups[l].at + CACHE_TTL_MS,
                                             value |-> data])
                  ELSE cache
      /\ lookups' = IF ok THEN Resolve(l, "value", data) ELSE Resolve(l, "error", <<>>)
      /\ UNCHANGED <<poolCache, poolInFlight, olInFlight, olCache, now>>

\* the clock, which is looked at around the time an entry expires: it advances
\* to `before` seconds before that time
CacheTick(before) ==
  /\ \E e \in cache \cup poolCache \cup {OlEntry(x.key) : x \in olCache} :
       /\ now < e.expiresAt - before
       /\ now' = e.expiresAt - before
  /\ UNCHANGED <<cacheVars, olCache>>

\* the titles and authors getBetterOlMatch is asked for: the first two have one key
OlInputs ==
  {<<<<"A", "b", ":", " ", "s">>, <<"X">>>>, <<<<"a", "b">>, <<"x">>>>, <<<<"C">>, <<"X">>>>}

\* the caches share no state: a behaviour exercises one of them
Only(name) == \A l \in 1..Len(lookups) : lookups[l].cache = name

NextCache ==
  \/ \E l \in {En, De} :
       Only("pool") /\ getAggregatedPool(l, <<"600">>) /\ UNCHANGED <<dataVars, resp, mbVars, fnVars, netVars>>
  \/ \E w \in 1..Len(lookups), ok \in BOOLEAN :
       PoolSettle(w, ok) /\ UNCHANGED <<dataVars, resp, mbVars, fnVars, netVars>>
  \/ \E i \in OlInputs :
       Only("ol") /\ getBetterOlMatch(En, i[1], i[2]) /\ UNCHANGED <<dataVars, resp, mbVars, fnVars, netVars>>
  \/ \E w \in 1..Len(lookups), o \in OlOutcomes :
       OlSettle(w, o) /\ UNCHANGED <<dataVars, resp, mbVars, fnVars, netVars>>
  \/ \E n \in {Undefined, <<"1", "2">>, <<"5">>} :
       Only("overview") /\ getEbooks(Undefined, n) /\ UNCHANGED <<dataVars, resp, mbVars, fnVars, netVars>>
  \/ \E l \in 1..Len(lookups), ok \in BOOLEAN :
       OverviewSettle(l, ok) /\ UNCHANGED <<dataVars, resp, mbVars, fnVars, netVars>>
  \/ \E before \in {0, 1} : CacheTick(before) /\ UNCHANGED <<dataVars, resp, mbVars, fnVars, netVars>>

SpecCache == Init /\ [][NextCache]_vars

\* the overview of a catalog that changes: the reads of getEbooks answer with
\* the rows the language has at that time (their ids stand for the shelves)
OverviewRead(l) ==
  LET key == lookups[l].key
  IN  /\ l \in Computing("overview", key)
      /\ lookups[l].value = <<>>
      /\ lookups' = [lookups EXCEPT ![l].value = <<{x.id : x \in {y \in catalog : y.lang_code = En}}>>]
      /\ UNCHANGED <<cache, poolCache, poolInFlight, olInFlight>>

\* a read of getEbooks fails: the request is answered with 500
OverviewFail(l) ==
  /\ l \in Computing("overview", lookups[l].key)
  /\ lookups[l].value = <<>>
  /\ lookups' = Resolve(l, "error", <<>>)
  /\ UNCHANGED <<cache, poolCache, poolInFlight, olInFlight>>

\* after the enrichment the response is stored, cache.set(cacheKey, {expiresAt:
\* now + CACHE_TTL_MS, data}), and sent
OverviewAnswer(l) ==
  LET key == lookups[l].key
  IN  /\ l \in Computing("overview", key)
      /\ lookups[l].value # <<>>
      /\ cache' = CacheSet(cache, [key |-> key, expiresAt |-> lookups[l].at + CACHE_TTL_MS,
                                   value |-> lookups[l].value])
      /\ lookups' = Resolve(l, "value", lookups[l].value)
      /\ UNCHANGED <<poolCache, poolInFlight, olInFlight>>

\* overview requests and one import of their language at any moment
NextOverview ==
  \/ Len(lookups) < MaxLookups /\ getEbooks(Undefined, Undefined)
       /\ UNCHANGED <<dataVars, resp, mbVars, fnVars, netVars>>
  \/ \E l \in 1..Len(lookups) :
       OverviewRead(l) /\ UNCHANGED <<syncVars, queryVars, mbVars, fnVars, netVars>>
  \/ \E l \in 1..Len(lookups) :
       OverviewFail(l) /\ UNCHANGED <<syncVars, queryVars, mbVars, fnVars, netVars>>
  \/ \E l \in 1..Len(lookups) :
       OverviewAnswer(l) /\ UNCHANGED <<syncVars, queryVars, mbVars, fnVars, netVars>>
  \/ \E p \in ImportPayloads :
       imports = <<>> /\ ImportStart(En, p) /\ UNCHANGED <<queryVars, mbVars, otherCaches, fnVars, netVars>>
  \/ \E k \in 1..Len(imports) : ImportStep(k) /\ UNCHANGED <<queryVars, mbVars, otherCaches, fnVars, netVars>>

SpecOverview == Init /\ [][NextOverview]_vars

\* the source failures: a sync at a time, any subset of its sources failing
NextFetch ==
  \/ \E l \in LangInputs : Len(calls) < MaxFetchCalls /\ SeqSync(l) /\ UNCHANGED <<queryVars, mbVars, cacheVars, fnVars, netVars>>
  \/ \E r \in CallIds : RunStep(r, AnyFailures) /\ UNCHANGED <<queryVars, mbVars, cacheVars, fnVars, netVars>>

SpecFetch == Init /\ [][NextFetch]_vars

(***************************************************************************)
(* fetchGutendex.                                                          *)
(***************************************************************************)
\* a record of a Gutendex page: its id, title, name of the first author, media
\* type and the url of its EPUB format ("": none)
GutendexBook(id, title, name, media, epub) ==
  [id |-> id, title |-> title, name |-> name, media |-> media, epub |-> epub]

\* the results a page of Gutendex may hold: none; two books; a book of another
\* page again, an academic title, a book without EPUB and an audio book; two
\* more books
GutendexResults ==
  {<<>>,
   <<GutendexBook(1, <<"A">>, <<"X">>, "text", "epub-1"),
     GutendexBook(2, <<"B">>, <<"X">>, "", "epub-2")>>,
   <<GutendexBook(8, <<"a">>, <<"x">>, "text", "epub-8"),
     GutendexBook(3, NotesOn, <<"X">>, "text", "epub-3"),
     GutendexBook(4, <<"C">>, <<"X">>, "text", ""),
     GutendexBook(5, <<"D">>, <<"X">>, "Sound", "epub-5")>>,
   <<GutendexBook(6, <<"E">>, <<"X">>, "text", "epub-6"),
     GutendexBook(7, <<"F">>, <<"X">>, "text", "epub-7")>>}

\* no Retry-After header (resp.headers.get gives null)
NoHeader == <<"null">>

\* the answers to a page request: the status, the Retry-After header, the results
GutendexResponses ==
  {[status |-> 200, retryAfter |-> NoHeader, results |-> r] : r \in GutendexResults}
  \cup {[status |-> 429, retryAfter |-> h, results |-> <<>>] :
          h \in {NoHeader, <<"2">>, <<"0">>, <<"9">>, <<"x">>}}
  \cup {[status |-> n, retryAfter |-> NoHeader, results |-> <<>>] : n \in {404, 403, 500, 503}}

\* dedupeKey, without the language (one call asks for one language)
dedupeKey(title, author) == ToLowerCase(title) \o Sep \o ToLowerCase(author)

\* the loop over the results of a page
RECURSIVE GutendexCollect(_, _, _)
GutendexCollect(out, results, limit) ==
  IF results = <<>> \/ Len(out) >= limit THEN out
  ELSE LET r == Head(results)
           title == normalizeTitle(r.title)
           author == IF Trim(r.name) = <<>> THEN Unknown ELSE Trim(r.name)
           key == dedupeKey(title, author)
           skip == \/ r.media # "" /\ r.media # "text"
                   \/ titleLooksAcademic(title)
                   \/ r.epub = ""
                   \/ \E i \in 1..Len(out) : out[i].key = key
       IN  GutendexCollect(IF skip THEN out ELSE Append(out, [id |-> r.id, key |-> key]),
                           Tail(results), limit)

\* a loop that goes on after limit items
GutendexLoopOn(g) ==
  IF g.page <= g.maxPages
  THEN [g EXCEPT !.pc = "request", !.attempt = 0, !.outstanding = g.outstanding + 1]
  ELSE [g EXCEPT !.pc = "returned"]

\* the head of the while loop: the next page is requested (one fetch is
\* awaited), or the function returns
GutendexLoop(g) ==
  IF Len(g.out) < g.limit /\ g.page <= g.maxPages
  THEN [g EXCEPT !.pc = "request", !.attempt = 0, !.outstanding = g.outstanding + 1]
  ELSE [g EXCEPT !.pc = "returned"]

\* fetchGutendex(lang, limit, opts) up to its first await
fetchGutendex(limit, opts) ==
  LET maxPagesCap == IF ~opts.given THEN 40 ELSE MaxOf(1, opts.maxPages)
      maxPages == MinOf(maxPagesCap, MaxOf(6, ((limit + 17) \div 18) + 2))
      pageDelayMs == IF ~opts.given THEN 0 ELSE MaxOf(0, opts.pageDelayMs)
      maxRetries == IF ~opts.given THEN 3 ELSE MaxOf(0, opts.maxRetries)
  IN  /\ gutendex.pc = "idle"
      /\ gutendex' = GutendexLoop([gutendex EXCEPT !.limit = limit, !.maxPages = maxPages,
                                                   !.pageDelayMs = pageDelayMs,
                                                   !.maxRetries = maxRetries])

\* a backoff that does not look at the Retry-After header
GutendexBackoffComputed(retryAfter, attempt) == MinOf(8000, 800 * (2 ^ attempt))

\* the time slept before the next attempt after a 429
GutendexBackoff(retryAfter, attempt) ==
  LET retryAfterSeconds == IF retryAfter = NoHeader THEN NaN ELSE parseInt(retryAfter)
  IN  IF ~retryAfterSeconds.nan THEN MaxOf(1, retryAfterSeconds.n) * 1000
      ELSE MinOf(8000, 800 * (2 ^ attempt))

\* the response to the page request arrives
GutendexAnswer(r, jitter) ==
  LET g == [gutendex EXCEPT !.resp = r, !.outstanding = gutendex.outstanding - 1]
      ok == r.status >= 200 /\ r.status <= 299
  IN  /\ gutendex.pc = "request"
      /\ gutendex' =
           IF r.status = 404 THEN [g EXCEPT !.pc = "returned"]
           ELSE IF r.status = 429
           THEN IF g.attempt >= g.maxRetries THEN [g EXCEPT !.pc = "returned"]
                ELSE [g EXCEPT !.pc = "sleep",
                               !.slept = GutendexBackoff(r.retryAfter, g.attempt) + jitter]
           ELSE IF ~ok THEN [g EXCEPT !.pc = "returned"]
           ELSE LET next == [g EXCEPT !.out = GutendexCollect(g.out, r.results, g.limit),
                                      !.page = g.page + 1]
                IN  IF g.pageDelayMs > 0
                    THEN [next EXCEPT !.pc = "delay", !.slept = g.pageDelayMs]
                    ELSE GutendexLoop(next)

\* fetch rejects (no connection), or the body of the response is no JSON
GutendexReject ==
  /\ gutendex.pc = "request"
  /\ gutendex' = [gutendex EXCEPT !.pc = "thrown", !.outstanding = gutendex.outstanding - 1]

\* sleepMs resolves: the next attempt for the page, or the next turn of the loop
GutendexWake ==
  /\ gutendex.pc \in {"sleep", "delay"}
  /\ gutendex' =
       IF gutendex.pc = "sleep"
       THEN [gutendex EXCEPT !.pc = "request", !.attempt = gutendex.attempt + 1,
                             !.outstanding = gutendex.outstanding + 1]
       ELSE GutendexLoop(gutendex)

\* the options of the aggregated pool (none given) and of the sync (its pages
\* scaled down)
GutendexOpts ==
  {[given |-> FALSE, maxPages |-> 0, pageDelayMs |-> 0, maxRetries |-> 0],
   [given |-> TRUE, maxPages |-> 2, pageDelayMs |-> 150, maxRetries |-> 3]}

NextGutendex ==
  \/ \E limit \in {2, 3}, opts \in GutendexOpts :
       fetchGutendex(limit, opts) /\ UNCHANGED <<syncVars, queryVars, mbVars, cacheVars, fnVars, wdVars, enrichPool>>
  \/ \E r \in GutendexResponses, jitter \in {0, 199} :
       GutendexAnswer(r, jitter) /\ UNCHANGED <<syncVars, queryVars, mbVars, cacheVars, fnVars, wdVars, enrichPool>>
  \/ GutendexReject /\ UNCHANGED <<syncVars, queryVars, mbVars, cacheVars, fnVars, wdVars, enrichPool>>
  \/ GutendexWake /\ UNCHANGED <<syncVars, queryVars, mbVars, cacheVars, fnVars, wdVars, enrichPool>>

SpecGutendex == Init /\ [][NextGutendex]_vars

(***************************************************************************)
(* getWorkAuthorsFromWikidata.                                             *)
(***************************************************************************)
\* 30 * 24 * 60 * 60 * 1000 ms, in seconds
WORK_AUTHOR_CACHE_TTL_MS == 30 * 24 * 60 * 60

\* /^Q\d+$/.test(value.trim())
isValidQid(value) ==
  LET v == Trim(value)
  IN  /\ Len(v) >= 2
      /\ Head(v) = "Q"
      /\ \A i \in 2..Len(v) : IsDigit(v[i])

\* what Wikidata holds for a work: no entity in the answer (or an answer that
\* is not ok); an author name string (P2093); an author entity (P50, P170) with
\* or without a label; an edition-of claim (P629) whose work has an author
\* name string, an author entity with a label, or no author that resolves; no
\* claim of these; "thrown": the request times out or cannot be sent
WorkShapes ==
  {"missing", "authorString", "authorEntity", "authorNoLabel", "editionString",
   "editionEntity", "editionNoAuthor", "noClaims", "thrown"}

\* the shapes for which an author is found
ResolvedShapes == {"authorString", "authorEntity", "editionString", "editionEntity"}

\* the shapes for which workAuthorCache.set is reached
CachedShapes == ResolvedShapes \cup {"authorNoLabel", "editionNoAuthor"}

Q1 == <<"Q", "1">>

\* getWorkAuthorsFromWikidata(workQids, lang); the work Q1 has the given shape
\* and every other work an author name string. The works asked for fit in one
\* batch (batchSize is 45).
getWorkAuthorsFromWikidata(workQids, shape) ==
  LET unique == {Trim(workQids[i]) : i \in {j \in 1..Len(workQids) : isValidQid(workQids[j])}}
      Fresh(q) == {e \in workAuthorCache : e.key = q /\ e.expiresAt > now}
      toFetch == {q \in unique : Fresh(q) = {}}
      ShapeOf(q) == IF q = Q1 THEN shape ELSE "authorString"
      fromCache == {q \in unique \ toFetch : \E e \in Fresh(q) : e.author # ""}
      resolved == {q \in toFetch : ShapeOf(q) \in ResolvedShapes}
      written == {q \in toFetch : ShapeOf(q) \in CachedShapes}
      thrown == toFetch # {} /\ shape = "thrown"
  IN  /\ Len(wdCalls) < MaxWdCalls
      /\ wdCalls' = Append(wdCalls,
                      [at |-> now, asked |-> unique, fetched |-> toFetch,
                       result |-> IF thrown THEN "thrown" ELSE "returned",
                       out |-> IF thrown THEN {} ELSE fromCache \cup resolved])
      /\ workAuthorCache' =
           IF thrown THEN workAuthorCache
           ELSE {e \in workAuthorCache : e.key \notin written}
                  \cup {[key |-> q,
                         expiresAt |-> now + (IF q \in resolved THEN WORK_AUTHOR_CACHE_TTL_MS
                                              ELSE 6 * 60 * 60),
                         author |-> IF q \in resolved THEN "author of " \o ShapeOf(q) ELSE ""] :
                          q \in written}
      /\ UNCHANGED now

\* the clock advances to `before` seconds before the expiry of an entry
WdTick(before) ==
  /\ \E e \in workAuthorCache :
       /\ now < e.expiresAt - before
       /\ now' = e.expiresAt - before
  /\ UNCHANGED wdVars

\* the work ids of one call: one work; two works, one of them twice, and a
\* value that is no id
WorkQidInputs == {<<Q1>>, <<<<" ", "Q", "1">>, <<"Q", "2">>, Q1, <<"x">>>>}

NextWikidata ==
  \/ \E ids \in WorkQidInputs, shape \in WorkShapes :
       getWorkAuthorsFromWikidata(ids, shape)
         /\ UNCHANGED <<dataVars, queryVars, mbVars, cacheVars, fnVars, gutendex, enrichPool>>
  \/ \E before \in {0, 1} :
       WdTick(before) /\ UNCHANGED <<dataVars, queryVars, mbVars, cacheVars, fnVars, gutendex, enrichPool>>

SpecWikidata == Init /\ [][NextWikidata]_vars

(***************************************************************************)
(* The author of a work, from the claims and labels Wikidata answers with. *)
(***************************************************************************)
\* extractFirstClaimString(entity, prop): the first claim value that is not
\* blank, trimmed
RECURSIVE FirstString(_)
FirstString(claims) ==
  IF claims = <<>> THEN Null
  ELSE IF Trim(Head(claims)) # <<>> THEN Trim(Head(claims))
  ELSE FirstString(Tail(claims))

extractFirstClaimString(entity, prop) == FirstString(entity[prop])

\* extractFirstClaimEntityId(entity, prop): the first claim value that is a QID
RECURSIVE FirstQid(_)
FirstQid(claims) ==
  IF claims = <<>> THEN Null
  ELSE IF isValidQid(Head(claims)) THEN Trim(Head(claims))
  ELSE FirstQid(Tail(claims))

extractFirstClaimEntityId(entity, prop) == FirstQid(entity[prop])

\* a reading of the claims that prefers the author entity to the author string
extractAuthorSignalEntityFirst(entity) ==
  LET authorEntity == IF extractFirstClaimEntityId(entity, "P50") # Null
                      THEN extractFirstClaimEntityId(entity, "P50")
                      ELSE extractFirstClaimEntityId(entity, "P170")
  IN  [authorString |-> IF authorEntity # Null THEN Null
                        ELSE extractFirstClaimString(entity, "P2093"),
       authorEntity |-> authorEntity,
       editionOf |-> extractFirstClaimEntityId(entity, "P629")]

\* extractAuthorSignalFromWork(entity)
extractAuthorSignalFromWork(entity) ==
  [authorString |-> extractFirstClaimString(entity, "P2093"),
   authorEntity |-> IF extractFirstClaimEntityId(entity, "P50") # Null
                    THEN extractFirstClaimEntityId(entity, "P50")
                    ELSE extractFirstClaimEntityId(entity, "P170"),
   editionOf |-> extractFirstClaimEntityId(entity, "P629")]

\* pickLabel(labels, preferredLangs): the label of the first preferred
\* language that has one; otherwise the first label of the answer
RECURSIVE pickLabel(_, _)
pickLabel(labels, preferredLangs) ==
  IF preferredLangs = <<>>
  THEN IF labels # <<>> /\ Trim(labels[1].value) # <<>> THEN Trim(labels[1].value) ELSE Null
  ELSE LET mine == {i \in 1..Len(labels) : labels[i].language = Head(preferredLangs)}
           v == labels[CHOOSE i \in mine : TRUE].value
       IN  IF mine # {} /\ Trim(v) # <<>> THEN Trim(v)
           ELSE pickLabel(labels, Tail(preferredLangs))

\* the label a labels request yields for an entity id
LabelOf(world, id, lang) ==
  IF id \in DOMAIN world.labels THEN pickLabel(world.labels[id], <<lang, En>>) ELSE Null

\* getWorkAuthorsFromWikidata over one batch of works that are not cached:
\* `out`, with Null for a work that has no key in it
WorkAuthors(world) ==
  LET batch == {world.batch[i] : i \in 1..Len(world.batch)}
      lang == world.lang
      present == {q \in batch : q \in DOMAIN world.entities}
      sig == [q \in present |-> extractAuthorSignalFromWork(world.entities[q])]
      byString == {q \in present : sig[q].authorString # Null}
      workToAuthorQid == {q \in present \ byString : sig[q].authorEntity # Null}
      workToEditionOf == {q \in present \ (byString \cup workToAuthorQid) : sig[q].editionOf # Null}
      editionQids == {sig[q].editionOf : q \in workToEditionOf}
      editions == {e \in editionQids : e \in DOMAIN world.entities}
      sigE == [e \in editions |-> extractAuthorSignalFromWork(world.entities[e])]
      editionToAuthorString == {e \in editions : sigE[e].authorString # Null}
      editionToAuthorQid == {e \in editions \ editionToAuthorString : sigE[e].authorEntity # Null}
      FromEdition(e) ==
        IF e \in editionToAuthorString THEN sigE[e].authorString
        ELSE IF e \in editionToAuthorQid THEN LabelOf(world, sigE[e].authorEntity, lang)
        ELSE Null
  IN  [q \in batch |->
         IF q \in byString THEN sig[q].authorString
         ELSE IF q \in workToAuthorQid THEN LabelOf(world, sig[q].authorEntity, lang)
         ELSE IF q \in workToEditionOf THEN FromEdition(sig[q].editionOf)
         ELSE Null]

\* the entities of the model: two works, the work one is an edition of, the
\* work that one is an edition of, and two authors
WorkA == <<"Q", "1">>
WorkB == <<"Q", "2">>
EditionQ == <<"Q", "3">>
DeeperQ == <<"Q", "4">>
AuthorA == <<"Q", "5">>
AuthorB == <<"Q", "6">>

Claims(strings, p50, p170, p629) ==
  [P2093 |-> strings, P50 |-> p50, P170 |-> p170, P629 |-> p629]

\* the label lists of an author: none, the target language only, a blank
\* target label and an English one, and both
LabelLists(a) ==
  {<<>>,
   <<[language |-> De, value |-> <<"d">> \o a]>>,
   <<[language |-> De, value |-> <<" ">>], [language |-> En, value |-> <<"e">> \o a]>>,
   <<[language |-> De, value |-> <<"d">> \o a \o <<" ">>], [language |-> En, value |-> <<"e">> \o a]>>}

AuthorWorlds ==
  {[batch |-> batch, lang |-> De,
    entities |->
      [q \in {WorkA, WorkB, DeeperQ} \cup (IF hasEdition THEN {EditionQ} ELSE {}) |->
         IF q = WorkA THEN wa
         ELSE IF q = WorkB THEN Claims(<<>>, <<>>, <<>>, <<EditionQ>>)
         ELSE IF q = DeeperQ THEN Claims(<< <<"n", "4">> >>, <<>>, <<>>, <<>>)
         ELSE ed],
    labels |-> [a \in {AuthorA, AuthorB} |-> IF a = AuthorA THEN la ELSE lb]] :
     batch \in {<<WorkA>>, <<WorkB, WorkA>>},
     hasEdition \in BOOLEAN,
     wa \in {Claims(s, p50, p170, p629) :
               s \in {<<>>, << <<" ">> >>, << <<" ">>, <<"n", "1", " ">> >>},
               p50 \in {<<>>, << <<"x">>, AuthorA >>},
               p170 \in {<<>>, <<AuthorB>>},
               p629 \in {<<>>, <<EditionQ>>}},
     ed \in {Claims(s, p50, <<>>, <<DeeperQ>>) :
               s \in {<<>>, << <<"n", "3">> >>}, p50 \in {<<>>, <<AuthorB>>}},
     la \in LabelLists(AuthorA),
     lb \in LabelLists(AuthorB)}

InitAuthor ==
  /\ InitSync
  /\ args \in AuthorWorlds
  /\ returned = <<>>

ResolveAuthors ==
  /\ returned = <<>>
  /\ returned' = <<WorkAuthors(args)>>
  /\ UNCHANGED args

NextAuthor == ResolveAuthors /\ UNCHANGED <<syncVars, queryVars, mbVars, cacheVars, netVars>>

SpecAuthor == InitAuthor /\ [][NextAuthor]_vars

(***************************************************************************)
(* pickBestOlDoc.                                                          *)
(***************************************************************************)
\* s.split(' ').filter(Boolean)
RECURSIVE SplitTokens(_, _)
SplitTokens(s, cur) ==
  IF s = <<>> THEN (IF cur = <<>> THEN <<>> ELSE <<cur>>)
  ELSE IF Head(s) = " "
  THEN (IF cur = <<>> THEN <<>> ELSE <<cur>>) \o SplitTokens(Tail(s), <<>>)
  ELSE SplitTokens(Tail(s), Append(cur, Head(s)))

\* the number of tokens two strings share
Overlap(want, have) ==
  LET wantTokens == {SplitTokens(want, <<>>)[i] : i \in 1..Len(SplitTokens(want, <<>>))}
      haveTokens == {SplitTokens(have, <<>>)[i] : i \in 1..Len(SplitTokens(have, <<>>))}
  IN  Cardinality(wantTokens \cap haveTokens)

\* d.author_name.join(' ')
RECURSIVE JoinNames(_)
JoinNames(names) ==
  IF names = <<>> THEN <<>>
  ELSE IF Len(names) = 1 THEN names[1]
  ELSE names[1] \o <<" ">> \o JoinNames(Tail(names))

\* a threshold that does not look at the author
OlThresholdFlat(authorKnown, titleTokens) == 0

\* const threshold = authorKnown ? 8 : titleTokens.length <= 3 ? 10 : 8
OlThreshold(authorKnown, titleTokens) ==
  IF authorKnown THEN 8 ELSE IF titleTokens <= 3 THEN 10 ELSE 8

\* the score of a doc that is not skipped
OlScore(d, wantTitle, wantAuthor, authorKnown) ==
  LET haveTitle == normalizeForLookup(d.title)
      haveAuthor == normalizeForLookup(JoinNames(d.author_name))
      titleScore == IF haveTitle = wantTitle THEN 10
                    ELSE IF Includes(haveTitle, wantTitle) \/ Includes(wantTitle, haveTitle) THEN 6
                    ELSE MinOf(4, Overlap(wantTitle, haveTitle))
      authorScore == IF ~authorKnown THEN 0
                     ELSE IF Includes(haveAuthor, wantAuthor) \/ Includes(wantAuthor, haveAuthor) THEN 5
                     ELSE MinOf(3, Overlap(wantAuthor, haveAuthor))
  IN  titleScore + authorScore

\* no doc has been kept
NoBest == [found |-> FALSE, at |-> 0, score |-> 0, bonus |-> 0]

\* the loop over the docs, from doc i on
RECURSIVE OlBest(_, _, _, _, _, _, _)
OlBest(docs, i, best, wantTitle, wantAuthor, authorKnown, opts) ==
  IF i > Len(docs) THEN best
  ELSE LET d == docs[i]
           hasCover == d.cover_i # 0
           hasAuthor == d.author_name # <<>>
           skip == \/ d.title = <<>>
                   \/ (~hasCover /\ ~hasAuthor)
                   \/ (opts.requireCover /\ ~hasCover)
                   \/ (opts.requireAuthor /\ ~hasAuthor)
           score == OlScore(d, wantTitle, wantAuthor, authorKnown)
           bonus == (IF hasCover THEN 1 ELSE 0) + (IF hasAuthor THEN 1 ELSE 0)
           better == \/ ~best.found
                     \/ score > best.score
                     \/ (score = best.score /\ bonus > best.bonus)
       IN  OlBest(docs, i + 1,
                  IF ~skip /\ better
                  THEN [found |-> TRUE, at |-> i, score |-> score, bonus |-> bonus]
                  ELSE best,
                  wantTitle, wantAuthor, authorKnown, opts)

\* pickBestOlDoc(docs, title, author, opts): the doc (null below the
\* threshold), with the locals best.score and threshold
pickBestOlDoc(docs, title, author, opts) ==
  LET wantTitle == normalizeForLookup(title)
      wantAuthor == normalizeForLookup(author)
      authorKnown == wantAuthor # <<>> /\ wantAuthor # normalizeForLookup(Unknown)
      titleTokens == Len(SplitTokens(wantTitle, <<>>))
      best == OlBest(docs, 1, NoBest, wantTitle, wantAuthor, authorKnown, opts)
      threshold == OlThreshold(authorKnown, titleTokens)
  IN  [doc |-> IF ~best.found \/ best.score < threshold THEN 0 ELSE best.at,
       found |-> best.found, score |-> best.score, threshold |-> threshold]

OlDoc(title, author_name, cover_i) ==
  [title |-> title, author_name |-> author_name, cover_i |-> cover_i]

\* titles of one, three and four words
OlTitles ==
  {<<"A">>, <<"a", " ", "b", " ", "c">>, <<"a", " ", "b", " ", "c", " ", "d">>}

OlAuthors == {<<>>, UnknownMixed, <<"X">>, <<"X", " ", "y">>}

OlDocs ==
  {OlDoc(t, a, c) :
     t \in OlTitles \cup {<<>>, <<"a", " ", "b">>, <<"d", " ", "c", " ", "b", " ", "a">>},
     a \in {<<>>, << <<"X">> >>, << <<"y">>, <<"Z">> >>},
     c \in {0, 7}}

InitOlDoc ==
  /\ InitSync
  /\ args \in {[docs |-> docs, title |-> t, author |-> a, opts |-> o] :
                  docs \in {<<d>> : d \in OlDocs}
                            \cup {<<OlDoc(<<"a", " ", "b">>, << <<"X">> >>, 0), d>> : d \in OlDocs},
                  t \in OlTitles, a \in OlAuthors,
                  o \in {[requireCover |-> FALSE, requireAuthor |-> FALSE],
                          [requireCover |-> TRUE, requireAuthor |-> FALSE]}}
  /\ returned = <<>>

PickDoc ==
  /\ returned = <<>>
  /\ returned' = <<pickBestOlDoc(args.docs, args.title, args.author, args.opts)>>
  /\ UNCHANGED args

NextOlDoc == PickDoc /\ UNCHANGED <<syncVars, queryVars, mbVars, cacheVars, netVars>>

SpecOlDoc == InitOlDoc /\ [][NextOlDoc]_vars

(***************************************************************************)
(* The enrichment passes and their worker pool.                            *)
(***************************************************************************)
\* the concurrency both passes give to mapWithConcurrency
EnrichConcurrency == 6

\* a pass that looks up every book it is given
EnrichAll(n) == n

\* .slice(0, MAX_ENRICH): the number of books of a pass, of n that are given
\* (distinct by id, and for the covers those that need a lookup)
EnrichSlice(n) == MinOf(MAX_ENRICH, n)

\* a worker takes the next index: it ends at the end of the items, otherwise
\* it calls fn and awaits it
RECURSIVE StartWorkers(_, _)
StartWorkers(p, w) ==
  IF w > Len(p.workers) THEN p
  ELSE StartWorkers(
         IF p.next >= p.items
         THEN [p EXCEPT !.next = p.next + 1, !.workers[w] = "ended"]
         ELSE [p EXCEPT !.next = p.next + 1, !.workers[w] = "awaiting",
                        !.lookedUp = p.lookedUp + 1, !.inFlight = p.inFlight + 1],
         w + 1)

\* mapWithConcurrency(items, concurrency, fn) up to its await: the workers are
\* created one after the other and each runs up to its first await
mapWithConcurrency(given, items, concurrency) ==
  LET started == StartWorkers(
                   [pc |-> "running", given |-> given, items |-> items, next |-> 0,
                    workers |-> [w \in 1..MaxOf(1, concurrency) |-> "new"],
                    lookedUp |-> 0, inFlight |-> 0], 1)
  IN  IF \A w \in 1..Len(started.workers) : started.workers[w] = "ended"
      THEN [started EXCEPT !.pc = "done"] ELSE started

\* enrichGutenbergTitlesWithOpenLibrary(lang, books), of n books distinct by
\* id: nothing for no books, otherwise the pool over the first MAX_ENRICH
EnrichTitles(n) ==
  /\ enrichPool.pc = "idle"
  /\ enrichPool' = IF n = 0 THEN [NoPool EXCEPT !.pc = "done"]
             ELSE mapWithConcurrency(n, EnrichSlice(n), EnrichConcurrency)

\* enrichCoversForSelection(lang, merged, opts), of n selected books that need
\* a lookup: the pool over the first MAX_ENRICH
EnrichCovers(n) ==
  /\ enrichPool.pc = "idle"
  /\ enrichPool' = mapWithConcurrency(n, EnrichSlice(n), EnrichConcurrency)

\* the lookup a worker awaits settles (getBetterOlMatch always resolves): the
\* worker goes round its loop; Promise.all resolves when every worker has ended
EnrichSettle(w) ==
  LET p == enrichPool
      q == IF p.next >= p.items
           THEN [p EXCEPT !.next = p.next + 1, !.workers[w] = "ended",
                          !.inFlight = p.inFlight - 1]
           ELSE [p EXCEPT !.next = p.next + 1, !.lookedUp = p.lookedUp + 1]
  IN  /\ p.pc = "running"
      /\ p.workers[w] = "awaiting"
      /\ enrichPool' = IF \A v \in 1..Len(q.workers) : q.workers[v] = "ended"
                 THEN [q EXCEPT !.pc = "done"] ELSE q

\* the pass returns; another request may start one
EnrichReturn ==
  /\ enrichPool.pc = "done"
  /\ enrichPool' = NoPool

\* the numbers of books the passes are given
EnrichInputs == {0, 1, EnrichConcurrency, EnrichConcurrency + 1}
                  \cup (MAX_ENRICH - 1)..(MAX_ENRICH + MaxExtra)

NextEnrich ==
  \/ \E n \in EnrichInputs : EnrichTitles(n) /\ UNCHANGED <<syncVars, queryVars, mbVars, cacheVars, fnVars, gutendex, wdVars>>
  \/ \E n \in EnrichInputs : EnrichCovers(n) /\ UNCHANGED <<syncVars, queryVars, mbVars, cacheVars, fnVars, gutendex, wdVars>>
  \/ \E w \in 1..Len(enrichPool.workers) : EnrichSettle(w) /\ UNCHANGED <<syncVars, queryVars, mbVars, cacheVars, fnVars, gutendex, wdVars>>
  \/ EnrichReturn /\ UNCHANGED <<syncVars, queryVars, mbVars, cacheVars, fnVars, gutendex, wdVars>>

SpecEnrich == Init /\ [][NextEnrich]_vars

\* mapWithConcurrency item by item. The frame of a call: its items, next, the
\* index each worker awaits (0: none yet, or the worker has ended), results,
\* how often fn was invoked for each index, and the indexes in the order in
\* which their invocations resolved
NoResult == <<>>

\* the value fn resolves with for an item
FnOf(item) == <<"fn", item>>

\* a worker that takes the index of another worker's last turn again
MapTakeAgain(p, w) ==
  LET i == IF p.next > 0 THEN p.next - 1 ELSE 0
  IN  IF p.next >= Len(p.items) + 1
      THEN [p EXCEPT !.next = p.next + 1, !.workers[w] = 0]
      ELSE [p EXCEPT !.next = p.next + 1, !.workers[w] = i + 1,
                     !.invoked[i + 1] = p.invoked[i + 1] + 1]

\* const i = next++; if (i >= items.length) break; ... fn(items[i])
MapTake(p, w) ==
  IF p.next >= Len(p.items)
  THEN [p EXCEPT !.next = p.next + 1, !.workers[w] = 0]
  ELSE [p EXCEPT !.next = p.next + 1, !.workers[w] = p.next + 1,
                 !.invoked[p.next + 1] = p.invoked[p.next + 1] + 1]

RECURSIVE MapTakeAll(_, _)
MapTakeAll(p, w) == IF w > Len(p.workers) THEN p ELSE MapTakeAll(MapTake(p, w), w + 1)

\* await Promise.all(workers); return results
MapResolve(p) ==
  IF \A w \in 1..Len(p.workers) : p.workers[w] = 0 THEN [p EXCEPT !.pc = "done"] ELSE p

\* the call up to its await: the workers are created one after the other and
\* each runs up to its first await
MapCall ==
  /\ args.pc = "new"
  /\ args' = MapResolve(MapTakeAll(
                [args EXCEPT !.pc = "running",
                             !.workers = [w \in 1..MaxOf(1, args.concurrency) |-> 0],
                             !.results = [i \in 1..Len(args.items) |-> NoResult],
                             !.invoked = [i \in 1..Len(args.items) |-> 0]], 1))
  /\ returned' = IF args'.pc = "done" THEN <<args'.results>> ELSE returned

\* the invocation a worker awaits resolves: results[i] = ..., and the worker
\* goes round its loop
MapSettle(w) ==
  /\ args.pc = "running"
  /\ w \in 1..Len(args.workers)
  /\ args.workers[w] > 0
  /\ args' = MapResolve(MapTake(
                [args EXCEPT !.results[args.workers[w]] = FnOf(args.items[args.workers[w]]),
                             !.settled = Append(args.settled, args.workers[w])], w))
  /\ returned' = IF args'.pc = "done" THEN <<args'.results>> ELSE returned

MapItems == {"a", "b"}

MapInputs ==
  {[items |-> items, concurrency |-> c, pc |-> "new", next |-> 0, workers |-> <<>>,
    results |-> <<>>, invoked |-> <<>>, settled |-> <<>>] :
     items \in UNION {[1..n -> MapItems] : n \in 0..MaxItems}, c \in 0..(MaxItems + 1)}

InitMap ==
  /\ InitSync
  /\ args \in MapInputs
  /\ returned = <<>>

NextMap ==
  \/ MapCall /\ UNCHANGED <<syncVars, queryVars, mbVars, cacheVars, netVars>>
  \/ \E w \in 1..(MaxItems + 2) : MapSettle(w) /\ UNCHANGED <<syncVars, queryVars, mbVars, cacheVars, netVars>>

SpecMap == InitMap /\ [][NextMap]_vars

(***************************************************************************)
(* The merge of the candidates of one catalog id, and the catalog id.      *)
(***************************************************************************)
\* the candidates of one deduped.get(id) chain
MaxFold == 3

\* candidates of the sources with one catalog id in a language: with or
\* without a cover, with or without a popularity
SameIdCandidates ==
  {Bk("gutenberg:1", <<"A", "b">>, <<"X">>, "Fiction", c, "dl-g1", "gutendex", n) :
     c \in {"", "cover-1", "cover-2"}, n \in {NoPop, 0, 5}}
  \cup
  {Bk("manybooks:1", <<"a", " ", " ", "b">>, <<"x">>, "Drama", c, "dl-mb", "manybooks", n) :
     c \in {"", "cover-1", "cover-2"}, n \in {NoPop, 0, 5}}

InitPick ==
  /\ InitSync
  /\ args \in UNION {[1..n -> SameIdCandidates] : n \in 1..MaxFold}
  /\ returned = <<>>

\* the loop of the sync over `all`, which holds the candidates in the order of args
MergeCandidates ==
  /\ returned = <<>>
  /\ returned' = Dedupe(En, args, <<>>)
  /\ UNCHANGED args

NextPick == MergeCandidates /\ UNCHANGED <<syncVars, queryVars, mbVars, cacheVars, netVars>>

SpecPick == InitPick /\ [][NextPick]_vars

\* titles with one main title: in other letter case, with runs of white space,
\* with a subtitle; and a title that is another one
KeyTitles ==
  {<<"A", "b", " ", "c">>, <<"a", "B", " ", "C">>, <<"A", "b", " ", "\t", " ", "c">>,
   <<" ", "A", "b", " ", "c", " ">>, <<"A", "b", " ", "c", ":", " ", "E">>,
   <<"a", "b", " ", " ", "c", " ", ":", "e", ":", "d">>, <<"A", "b", "c">>}

KeyAuthors == {<<"X", ".", " ", "Y">>, <<"x", ".", " ", " ", "y">>, <<"X", "Y">>}

InitKey ==
  /\ InitSync
  /\ args \in (KeyTitles \X KeyAuthors) \X (KeyTitles \X KeyAuthors)
  /\ returned = <<>>

\* the ids of two candidates of a language, from their trimmed titles and authors
CatalogIds ==
  /\ returned = <<>>
  /\ returned' = <<toCatalogId(En, Trim(args[1][1]), Trim(args[1][2])),
                 toCatalogId(En, Trim(args[2][1]), Trim(args[2][2]))>>
  /\ UNCHANGED args

NextKey == CatalogIds /\ UNCHANGED <<syncVars, queryVars, mbVars, cacheVars, netVars>>

SpecKey == InitKey /\ [][NextKey]_vars

\* two candidates of one catalog id: of every source, with or without a cover,
\* with or without a popularity
PairCandidates ==
  {Bk("id", <<"A", "b">>, <<"X">>, "Fiction", c, "dl", Sources[i], n) :
     c \in {"", "cover-1"}, i \in 1..Len(Sources), n \in {NoPop, 0, 5, 10}}

InitPair ==
  /\ InitSync
  /\ args \in PairCandidates \X PairCandidates
  /\ returned = <<>>

\* deduped.set(id, pickBetterCandidate(existing, b))
PickPair ==
  /\ returned = <<>>
  /\ returned' = <<pickBetterCandidate(args[1], args[2])>>
  /\ UNCHANGED args

NextPair == PickPair /\ UNCHANGED <<syncVars, queryVars, mbVars, cacheVars, netVars>>

SpecPair == InitPair /\ [][NextPair]_vars


(***************************************************************************)
(* Properties.                                                             *)
(***************************************************************************)
Settled(r) == runs[r].pc \in {"resolved", "rejected"}

RowIds(rows) == {rows[i].id : i \in 1..Len(rows)}

\* the runs of a language that started after run r
LaterRuns(r) == {q \in CallIds : q > r /\ runs[q].pc # "none" /\ runs[q].lang = runs[r].lang}

\* C1: a call made while a run of its language is executing starts no run of
\* its own (it makes no state write, fetch or upsert) and settles exactly as
\* the caller that started that run: same upserted count, or same error.
C1_Coalesced ==
  \A c \in CallIds :
    /\ calls[c].saw # {} =>
         /\ runs[c].pc = "none"
         /\ calls[c].run \in calls[c].saw
    /\ calls[c].outcome = calls[calls[c].run].outcome
    /\ calls[c].upserted = calls[calls[c].run].upserted
    /\ calls[c].error = calls[calls[c].run].error

C1_Witness ==
  \E c \in CallIds :
    /\ calls[c].run # c
    /\ calls[c].saw # {}
    /\ calls[c].outcome = "ok"
    /\ calls[c].upserted = 3

\* C2: for each language at most one run is executing, whatever the
\* interleaving of manual requests and auto-sync calls.
C2_OneRunPerLang ==
  \A l \in Langs : Cardinality(ExecutingFor(l)) <= 1

C2_Witness ==
  /\ Len(autoSync) > 0
  /\ \E c \in CallIds :
       /\ calls[c].run # c
       /\ calls[c].outcome = "pending"
       /\ Executing(calls[c].run)

\* C3: a run writes 'running' before it fetches, the last state write of a
\* settled run is 'idle' or 'error', and the status of a language with no run
\* executing is not 'running'.
C3_StatusMachine ==
  /\ \A r \in CallIds :
       /\ runs[r].pc \in {"fetch", "upsert", "rebuild", "wIdle", "wError"}
            => runs[r].lastWrite = "running"
       /\ Settled(r) => runs[r].lastWrite # "running"
  /\ \A l \in Langs : ExecutingFor(l) = {} => syncState[l].status # "running"

\* C4: two successful syncs of a language, one after the other, whose fetches
\* returned the same data, build the same id set and the same count, and the
\* second one adds no row to the catalog.
C4_Idempotent ==
  \A r1, r2 \in CallIds :
    ( /\ r1 < r2
      /\ runs[r1].pc = "resolved" /\ runs[r2].pc = "resolved"
      /\ runs[r1].lang = runs[r2].lang
      /\ runs[r1].failed = runs[r2].failed )
    => /\ RowIds(runs[r1].rows) = RowIds(runs[r2].rows)
       /\ calls[r1].upserted = calls[r2].upserted
       /\ runs[r2].added = 0

C4_Witness ==
  \E r1, r2 \in CallIds :
    /\ r1 < r2
    /\ runs[r1].pc = "resolved" /\ runs[r2].pc = "resolved"
    /\ runs[r1].failed = {} /\ runs[r2].failed = {}
    /\ calls[r2].upserted = 3
    /\ runs[r1].added > 0

NormKey(x) ==
  <<x.lang_code, normalizeForCatalogNorm(x.title), normalizeForCatalogNorm(x.author)>>

\* C5: the catalog holds at most one row per normalization key (language,
\* normalized title, normalized author).
C5_OneRowPerKey ==
  \A x, y \in catalog : NormKey(x) = NormKey(y) => x = y

C5_Witness ==
  /\ \E k \in 1..Len(imports) : imports[k].pc = "done" /\ imports[k].inserted > 0
  /\ \E r \in CallIds : runs[r].pc = "resolved" /\ Len(runs[r].rows) = 3
  /\ Cardinality(catalog) >= 4

\* C6: a run one of whose batch upserts failed rejects to all its callers with
\* that failure, leaves status 'error' with last_error the failure message,
\* and wrote no row of the failing batch or of a later one.
C6_BatchFailure ==
  \A r \in CallIds :
    (runs[r].failedAt # 0 /\ Settled(r)) =>
      /\ \A c \in CallIds : calls[c].run = r =>
           calls[c].outcome = "err" /\ calls[c].error = ErrItems
      /\ LaterRuns(r) = {} =>
           /\ syncState[runs[r].lang].status = "error"
           /\ syncState[runs[r].lang].last_error = ErrItems
      /\ (\A q \in CallIds : q # r => runs[q].lang # runs[r].lang) =>
           {x.id : x \in {y \in catalog : y.lang_code = runs[r].lang}}
             = {runs[r].rows[i].id : i \in 1..(runs[r].failedAt - 1)}

\* the persistable candidates of the sources of a language that did not fail
Survivors(lang, failed) ==
  UNION { {b \in {FetchSource(lang, s)[i] : i \in 1..Len(FetchSource(lang, s))} :
             IsPersistable(b)} : s \in ApplicableSources(lang) \ failed }

\* C7: source failures alone never end a sync in error: the failed sources
\* contribute nothing, the candidates of the others are merged and persisted,
\* and the run ends 'idle'.
C7_SourceFailures ==
  \A r \in CallIds :
    /\ (runs[r].pc \notin {"none", "wRunning", "fetch"} /\ ~runs[r].dbFailed)
         => /\ runs[r].pc \notin {"wError", "rejected"}
            /\ {NormKey(runs[r].rows[i]) : i \in 1..Len(runs[r].rows)}
                 = {<<runs[r].lang, normalizeForCatalogNorm(b.title),
                      normalizeForCatalogNorm(b.author)>> :
                      b \in Survivors(runs[r].lang, runs[r].failed)}
            /\ \A i \in 1..Len(runs[r].rows) : runs[r].rows[i].source \notin runs[r].failed
    /\ runs[r].pc = "resolved"
         => /\ calls[r].outcome = "ok"
            /\ LaterRuns(r) = {} => syncState[runs[r].lang].status = "idle"
            /\ RowIds(runs[r].rows) \subseteq {x.id : x \in catalog}

C7_Witness ==
  \E r \in CallIds :
    /\ runs[r].pc = "resolved"
    /\ runs[r].failed = {"gutendex", "standardebooks"}
    /\ Len(runs[r].rows) = 1
    /\ syncState[runs[r].lang].status = "idle"


Page == resp.status = 200 /\ resp.op # "none"

C9_NoUpstreamRequest ==
  resp.op \in {"categories", "category", "author", "search"} => resp.requests = {}


\* a fetchManyBooks call made while the block that was last opened lasted
InCoolDown(m) == m.lastBlock # 0 /\ m.at < m.lastBlock + MANYBOOKS_BLOCK_TTL_MS

\* C10: a fetchManyBooks call made less than an hour after the last block
\* response returns the empty list, without raising and without a request; a
\* call made an hour or more after it, or with no block before, sends a request.
C10_CoolDown ==
  \A c \in 1..Len(mbCalls) :
    IF InCoolDown(mbCalls[c])
    THEN /\ mbCalls[c].result = "returned"
         /\ mbCalls[c].books = 0
         /\ mbCalls[c].requests = 0
    ELSE mbCalls[c].requests >= 1

C10_Witness ==
  \E c, d \in 1..Len(mbCalls) :
    /\ InCoolDown(mbCalls[c])
    /\ mbCalls[c].at = mbCalls[c].lastBlock + MANYBOOKS_BLOCK_TTL_MS - 1
    /\ mbCalls[c].result = "returned"
    /\ mbCalls[d].lastBlock = mbCalls[c].lastBlock
    /\ mbCalls[d].at = mbCalls[d].lastBlock + MANYBOOKS_BLOCK_TTL_MS
    /\ mbCalls[d].requests >= 1

\* a call that found no entry that was still fresh
Uncached(m) == m.seen = NoEntry \/ m.seen.expiresAt <= m.at

\* C11: for the pool cache and the OpenLibrary cache, at most one computation
\* per key is running; a call for a key with no fresh entry, made while a
\* computation for that key is running, starts none and awaits that one; and
\* every caller that awaits a computation, the first one included, gets the
\* outcome of that computation.
C11_SingleFlight ==
  \A l \in 1..Len(lookups) :
    LET m == lookups[l]
    IN  m.cache \in {"pool", "ol"} =>
          /\ Cardinality(Computing(m.cache, m.key)) <= 1
          /\ (Uncached(m) /\ m.saw # {}) => (m.work \in m.saw /\ m.work # l)
          /\ m.work # 0 => /\ m.outcome = lookups[m.work].outcome
                           /\ m.value = lookups[m.work].value

C11_Witness ==
  \E a, b, c \in 1..Len(lookups) :
    /\ a < b /\ b < c
    /\ lookups[a].cache = "ol" /\ lookups[a].work = a
    /\ lookups[b].work = a /\ lookups[c].work = a
    /\ lookups[b].saw = {a} /\ lookups[c].saw = {a}
    /\ lookups[c].pc = "done"
    /\ lookups[c].value = <<"O", "l">>

\* C12: for the three caches, a call that finds an entry before its expiry
\* time answers with the value of the entry and starts no computation; a call
\* that finds an entry at or after its expiry time does not answer from the
\* cache: it awaits a computation started at or after the expiry time, its own
\* one for the overview cache.
C12_Expiry ==
  \A l \in 1..Len(lookups) :
    LET m == lookups[l]
    IN  m.seen # NoEntry =>
          IF m.at < m.seen.expiresAt
          THEN m.work = 0 /\ m.outcome = "value" /\ m.value = m.seen.value
          ELSE /\ m.work # 0
               /\ lookups[m.work].at >= m.seen.expiresAt
               /\ m.cache = "overview" => m.work = l

C12_Witness ==
  \E a, b \in 1..Len(lookups) :
    /\ lookups[a].cache = "pool" /\ lookups[b].cache = "pool"
    /\ lookups[a].seen = lookups[b].seen
    /\ lookups[a].at = lookups[a].seen.expiresAt - 1
    /\ lookups[a].work = 0
    /\ lookups[b].at = lookups[b].seen.expiresAt
    /\ lookups[b].work = b
    /\ lookups[b].outcome = "value"

\* the candidates of args in the order p
Reordered(p) == [k \in 1..Len(args) |-> args[p[k]]]

\* C13: pickBetterCandidate selects the same record of two candidates of one
\* id in both argument orders, and the record the sync leaves in the Map
\* deduped for an id is the same in every order of its candidates.
C13_OrderIndependent ==
  returned # <<>> =>
    /\ \A i, j \in 1..Len(args) :
         pickBetterCandidate(args[i], args[j]) = pickBetterCandidate(args[j], args[i])
    /\ \A p \in Permutations(1..Len(args)) :
         Dedupe(En, Reordered(p), <<>>)[1].b = returned[1].b

\* a cover that is neither missing nor a generic placeholder
HasOwnCover(x) == x.cover_url # "" /\ ~isProbablyGenericGutenbergCover(x.cover_url)

\* C14: a step of an import leaves the download url of every persisted row
\* that has one as it is, leaves the cover of every persisted row whose cover
\* is neither missing nor generic as it is, and leaves a row that has both
\* unchanged.
C14_NoDowngrade ==
  [][imports' # imports =>
       \A x \in catalog : \A y \in catalog' :
         y.id = x.id =>
           /\ x.download_url # "" => y.download_url = x.download_url
           /\ HasOwnCover(x) => y.cover_url = x.cover_url
           /\ (x.download_url # "" /\ HasOwnCover(x)) => y = x]_vars

\* every sync and every import of a language so far has completed
AllCompleted(l) ==
  /\ \A r \in CallIds : runs[r].lang = l => runs[r].pc = "resolved"
  /\ \A k \in 1..Len(imports) : imports[k].lang = l => imports[k].pc = "done"
  /\ \/ \E r \in CallIds : runs[r].lang = l /\ runs[r].pc = "resolved"
     \/ \E k \in 1..Len(imports) : imports[k].lang = l

\* C15: when the syncs and the imports of a language have completed, its
\* category counts and its author counts are the counts of its catalog rows.
C15_CountsMatch ==
  \A l \in Langs : AllCompleted(l) => counts[l] = RebuildCounts(catalog, l)

\* C16: no catalog row has an author that is empty or, in any letter case,
\* 'unknown'.
C16_ResolvedAuthors ==
  \A x \in catalog :
    /\ Trim(x.author) # <<>>
    /\ ToLowerCase(Trim(x.author)) # <<"u", "n", "k", "n", "o", "w", "n">>

C16_Witness ==
  /\ \E r \in CallIds :
       /\ runs[r].pc = "resolved" /\ runs[r].failed = {}
       /\ \A i \in 1..Len(runs[r].rows) : runs[r].rows[i].id \in {x.id : x \in catalog}
       /\ Len(runs[r].rows) = 3
  /\ \E k \in 1..Len(imports) : imports[k].pc = "done" /\ imports[k].incoming = <<>>

\* C19: no catalog row has a title with a keyword of the academic blocklist.
C19_NoAcademicTitle ==
  \A x \in catalog : ~titleLooksAcademic(x.title)

\* two (title, author) pairs that differ only in letter case, in runs of
\* white space, or in a subtitle after the first ':'
SameBook(p, q) ==
  /\ normalizeForCatalogNorm(normalizeMainTitle(p[1])) =
       normalizeForCatalogNorm(normalizeMainTitle(q[1]))
  /\ normalizeForCatalogNorm(p[2]) = normalizeForCatalogNorm(q[2])

\* C17: two (title, author) pairs of a language that differ only in letter
\* case, in runs of white space, or in a subtitle after the first ':' get the
\* same catalog id.
C17_KeyInsensitive ==
  (returned # <<>> /\ SameBook(args[1], args[2])) => returned[1] = returned[2]

\* the catalog rows of a language
RowsOf(cat, l) == {x \in cat : x.lang_code = l}

\* C18: a sync call awaits a run of its own language only and, when no run of
\* its language is executing, starts its own run whatever runs of other
\* languages are executing; and a step of a run changes the sync state row
\* and the catalog rows of no language but its own.
C18_LanguagesIndependent ==
  /\ [](\A c \in CallIds :
          /\ runs[calls[c].run].lang = calls[c].lang
          /\ calls[c].saw = {} => calls[c].run = c)
  /\ [][\A r \in CallIds :
          runs'[r] # runs[r] =>
            \A l \in Langs \ {runs[r].lang} :
              /\ syncState'[l] = syncState[l]
              /\ RowsOf(catalog', l) = RowsOf(catalog, l)]_vars

\* a sync of one language started while a sync of the other was executing, and
\* both have written their state row and their catalog rows
C18_Witness ==
  \E r \in CallIds, q \in CallIds :
    /\ r < q
    /\ runs[r].lang = En /\ runs[q].lang = De
    /\ Executing(r) /\ Executing(q)
    /\ calls[q].saw = {} /\ calls[q].run = q
    /\ syncState[En].status = "running" /\ syncState[De].status = "running"
    /\ RowsOf(catalog, En) # {} /\ RowsOf(catalog, De) # {}

\* C20: a page of the items of a category, of the items of an author or of a
\* search has a null nextCursor exactly when the result is exhausted: fewer
\* than limit rows were read, or the cursor plus the rows read reach the total.
C20_NullIffExhausted ==
  (Page /\ resp.op \in {"category", "author", "search"}) =>
    (resp.nextCursor = Null <=>
       (resp.rows < resp.limit \/ resp.cursor + resp.rows >= resp.total))

\* the place of a source in the order of curation, the most curated first
RankOf(b) == CHOOSE i \in 1..Len(Sources) : Sources[i] = b.source

\* the popularity of a record, a missing one counting as 0
PopOf(b) == IF b.popularity = NoPop THEN 0 ELSE b.popularity

\* C21: pickBetterCandidate(a, b) returns one of a and b, unmodified: the one
\* with a cover when only one has a cover; else the one with the higher
\* popularity (a missing one counting as 0); else the one whose source comes
\* first in the order standardebooks, wolnelektury, gutendex, wikisource,
\* manybooks; else a.
C21_LexicographicWinner ==
  returned # <<>> =>
    LET a == args[1]
        b == args[2]
        w == returned[1]
    IN  /\ w \in {a, b}
        /\ IF (a.coverUrl # "") # (b.coverUrl # "") THEN w.coverUrl # ""
           ELSE IF PopOf(a) # PopOf(b)
                THEN PopOf(w) >= PopOf(a) /\ PopOf(w) >= PopOf(b)
           ELSE IF RankOf(a) # RankOf(b)
                THEN RankOf(w) <= RankOf(a) /\ RankOf(w) <= RankOf(b)
           ELSE w = a

\* a record without a cover and with popularity 10 has lost to a record of a
\* less curated source with a cover and popularity 5
C21_Witness ==
  /\ returned # <<>>
  /\ args[1].coverUrl = "" /\ args[1].popularity = 10 /\ args[1].source = "standardebooks"
  /\ args[2].coverUrl # "" /\ args[2].popularity = 5 /\ args[2].source = "manybooks"
  /\ returned[1] = args[2]

\* the response to the page request of fetchGutendex arrives in this step
Answered == gutendex.pc = "request" /\ gutendex' # gutendex /\ gutendex'.pc # "thrown"

\* C22: a page request answered with 429 or with a 5xx status is made again
\* for the same page after min(8000, 800 * 2^attempt) ms plus a jitter below
\* 200 ms (no Retry-After given), at most 3 times; after the fourth answer of
\* this kind the fetcher returns what it has gathered.
C22_RetryOn429And5xx ==
  /\ [](gutendex.attempt <= 3)
  /\ [][(Answered /\ gutendex'.resp.status \in {429} \cup (500..599)) =>
          IF gutendex.attempt < 3
          THEN /\ gutendex'.pc = "sleep"
               /\ gutendex'.page = gutendex.page
               /\ gutendex'.resp.retryAfter = NoHeader =>
                    /\ gutendex'.slept >= MinOf(8000, 800 * (2 ^ gutendex.attempt))
                    /\ gutendex'.slept < MinOf(8000, 800 * (2 ^ gutendex.attempt)) + 200
          ELSE /\ gutendex'.pc = "returned"
               /\ gutendex'.out = gutendex.out]_vars

\* the seconds of a Retry-After header, which is a number
SecondsOf(h) == parseInt(h).n

\* C23: after a 429 with a Retry-After of s seconds the next attempt is made
\* after s seconds at least (at most a second and a jitter more), whatever the
\* attempt; the attempt that follows is the next one for the same page; and
\* when the second attempt for the first page succeeds with two books, these
\* are the items gathered (up to limit).
C23_RetryAfter ==
  /\ [][(/\ Answered
         /\ gutendex'.resp.status = 429
         /\ gutendex'.pc = "sleep"
         /\ gutendex'.resp.retryAfter \in {<<"0">>, <<"2">>, <<"9">>}) =>
          LET s == SecondsOf(gutendex'.resp.retryAfter)
          IN  /\ gutendex'.slept >= s * 1000
              /\ gutendex'.slept < MaxOf(1, s) * 1000 + 200]_vars
  /\ [][(gutendex.pc = "sleep" /\ gutendex' # gutendex) =>
          /\ gutendex'.pc = "request"
          /\ gutendex'.page = gutendex.page
          /\ gutendex'.attempt = gutendex.attempt + 1]_vars
  /\ [](/\ gutendex.page = 2 /\ gutendex.attempt = 1 /\ gutendex.resp.status = 200
        /\ Len(gutendex.resp.results) = 2 /\ gutendex.resp.results[1].id = 1
        => [i \in 1..Len(gutendex.out) |-> gutendex.out[i].id] =
             SubSeq(<<1, 2>>, 1, MinOf(2, gutendex.limit)))

\* the first page was answered 429 with Retry-After: 2, then with two books:
\* one retry, after 2 s, and both books returned
C23_Witness ==
  /\ gutendex.pc = "returned"
  /\ gutendex.page = 2 /\ gutendex.attempt = 1
  /\ gutendex.slept \in {2000, 2199}
  /\ gutendex.resp.status = 200
  /\ Len(gutendex.out) = 2 /\ gutendex.limit = 2

\* C24: fetchGutendex has at most one page request outstanding and never more
\* than limit items; a request is for the first page, for the page of the
\* request before it (a retry) or, after a page was read, for the next page;
\* and no request is made once limit items are gathered or a page was
\* answered 404.
C24_PagesInSequence ==
  /\ [](/\ gutendex.outstanding \in {0, 1}
        /\ gutendex.outstanding = 1 <=> gutendex.pc = "request"
        /\ Len(gutendex.out) <= gutendex.limit
        /\ gutendex.pc = "request" =>
             Len(gutendex.out) < gutendex.limit /\ gutendex.resp.status # 404)
  /\ [][/\ (gutendex.pc = "idle" /\ gutendex'.pc = "request") => gutendex'.page = 1
        /\ gutendex'.page \in {gutendex.page, gutendex.page + 1}
        /\ gutendex'.page = gutendex.page + 1 =>
             Answered /\ gutendex'.resp.status = 200]_vars

\* two pages were read one after the other and the fetcher has returned
\* exactly limit items
C24_Witness ==
  /\ gutendex.pc = "returned"
  /\ gutendex.page = 3
  /\ gutendex.limit = 3 /\ Len(gutendex.out) = 3
  /\ Len(gutendex.resp.results) = 4

\* the getAggregatedPool calls
PoolCalls == {l \in 1..Len(lookups) : lookups[l].cache = "pool"}

\* C25: when the computation of getAggregatedPool fails, every caller that
\* awaits it gets the failure, the key has no in-flight entry and no cache
\* entry from it, and a call for the key made after the failure starts a
\* computation of its own.
C25_PoolFailure ==
  /\ \A l \in PoolCalls :
       (lookups[l].work # 0 /\ lookups[lookups[l].work].outcome = "error")
         => lookups[l].outcome = "error"
  /\ \A f \in poolInFlight : lookups[f.work].pc = "waiting"
  /\ \A e \in poolCache : \A w \in PoolCalls :
       e.value = <<"pool generated by ", ToString(w)>> => lookups[w].outcome = "value"
  /\ \A w \in PoolCalls, l \in PoolCalls :
       (/\ w < l /\ lookups[w].key = lookups[l].key
        /\ lookups[w].outcome = "error"
        /\ lookups[l].saw = {} /\ ~CacheFresh(lookups[l].seen, lookups[l].at))
         => lookups[l].work = l

\* a computation failed for the call that started it and for the call that
\* awaited it, nothing is cached, and the next call computes again
C25_Witness ==
  /\ Len(lookups) = 3
  /\ \A l \in 1..3 : lookups[l].cache = "pool" /\ lookups[l].key = lookups[1].key
  /\ lookups[1].work = 1 /\ lookups[2].work = 1
  /\ lookups[1].outcome = "error" /\ lookups[2].outcome = "error"
  /\ lookups[3].work = 3 /\ lookups[3].saw = {}
  /\ poolCache = {}

\* C26: a lookup of getBetterOlMatch whose request to OpenLibrary fails (a
\* timeout, a network error, an answer that is not ok) leaves a cache entry
\* for its key that expires 6 hours after the call.
C26_NegativeWindow ==
  [][\A w \in 1..Len(lookups) :
       (/\ lookups[w].cache = "ol" /\ lookups[w].work = w
        /\ lookups[w].pc = "waiting" /\ lookups'[w].pc = "done"
        /\ lookups'[w].upstream \in {"failed", "notOk"})
         => CacheGet(olCache', lookups[w].key).expiresAt =
              lookups[w].at + NEGATIVE_CACHE_TTL_MS]_vars

\* C27: after a lookup of a work that Wikidata was asked for and that ended
\* without an author, the work has a negative cache entry that expires 6 hours
\* later, and a call that asks for the work within these 6 hours sends no
\* request for it.
C27_NegativeEntry ==
  \A c \in 1..Len(wdCalls) :
    \A q \in wdCalls[c].fetched :
      (wdCalls[c].result = "returned" /\ q \notin wdCalls[c].out) =>
        /\ c = Len(wdCalls) =>
             \E e \in workAuthorCache :
               /\ e.key = q /\ e.author = ""
               /\ e.expiresAt = wdCalls[c].at + 6 * 60 * 60
        /\ \A d \in (c + 1)..Len(wdCalls) :
             (q \in wdCalls[d].asked /\ wdCalls[d].at < wdCalls[c].at + 6 * 60 * 60)
               => q \notin wdCalls[d].fetched


\* C28: every block signal in an answer of ManyBooks (a body that looks like an
\* HTML page or holds a challenge marker, with any status, or an error status)
\* sets manyBooksBlockedUntil to one hour after the time the answer is read
C28_BlockSignalOpens ==
  [][\A c \in 1..Len(mbCalls) :
       (mbCalls'[c] # mbCalls[c] /\ mbCalls'[c].signal)
         => manyBooksBlockedUntil' = now + MANYBOOKS_BLOCK_TTL_MS]_vars

\* C29: of the import requests of one language, whatever their order and
\* interleaving, no two call the rebuild of the counts less than 60 seconds
\* apart, whether the rebuild succeeds or fails
Rebuilt(k) == imports[k].rebuild \in {"ok", "failed"}

C29_RebuildThrottled ==
  \A k1, k2 \in 1..Len(imports) :
    (/\ k1 # k2
     /\ imports[k1].lang = imports[k2].lang
     /\ Rebuilt(k1) /\ Rebuilt(k2)
     /\ imports[k1].checkedAt <= imports[k2].checkedAt)
      => imports[k2].checkedAt - imports[k1].checkedAt >= COUNTS_REBUILD_THROTTLE_MS

\* two requests of one language: the rebuild of the first fails, and the
\* second, 59 seconds later, skips the rebuild
C29_Witness ==
  \E k1, k2 \in 1..Len(imports) :
    /\ imports[k1].lang = imports[k2].lang
    /\ imports[k1].rebuild = "failed"
    /\ imports[k2].rebuild = "skipped"
    /\ imports[k2].checkedAt = imports[k1].checkedAt + COUNTS_REBUILD_THROTTLE_MS - 1

\* C30: one enrichment pass looks up at most 80 items, and never has more than
\* 6 of its lookups in flight
C30_PassBounded ==
  /\ enrichPool.lookedUp <= 80
  /\ enrichPool.inFlight <= 6

\* a pass that is given more than 80 books has started its 80th lookup, with 6
\* lookups in flight
C30_Witness ==
  /\ enrichPool.pc = "running"
  /\ enrichPool.given > 80
  /\ enrichPool.lookedUp = 80
  /\ enrichPool.inFlight = 6

\* C31: a sync call made by the auto-sync timer for a language whose run (of
\* an earlier tick or of a manual request) is executing starts no run: the
\* call joins that run, and the runs executing for the language stay the same
C31_TickJoinsRun ==
  [][\A t \in 1..Len(autoSync') :
       (t > Len(autoSync) \/ autoSync'[t].call # autoSync[t].call) =>
         LET c == autoSync'[t].call
             l == calls'[c].lang
         IN  ExecutingFor(l) # {} =>
               /\ runs'[c].pc = "none"
               /\ calls'[c].run \in ExecutingFor(l)
               /\ {r \in 1..Len(calls') : runs'[r].pc \notin {"none", "resolved", "rejected"}
                                           /\ runs'[r].lang = l} = ExecutingFor(l)]_vars

\* the second tick has joined the run the first tick started, which is still
\* executing
C31_Witness ==
  \E t1, t2 \in 1..Len(autoSync) :
    /\ t1 < t2
    /\ autoSync[t1].pos = 1 /\ autoSync[t2].pos = 1
    /\ runs[autoSync[t1].call].pc # "none"
    /\ Executing(autoSync[t1].call)
    /\ calls[autoSync[t2].call].run = autoSync[t1].call
    /\ runs[autoSync[t2].call].pc = "none"

\* C32: the author of a work is its author-name string; else the label of its
\* author entity, in the target language and else in English; else, only when
\* the work has neither claim, the outcome of the same two checks on the
\* entity its edition-of claim points to, whose own edition-of is not followed
HasAuthorClaim(e) ==
  \/ extractFirstClaimString(e, "P2093") # Null
  \/ extractFirstClaimEntityId(e, "P50") # Null
  \/ extractFirstClaimEntityId(e, "P170") # Null

TwoChecks(world, e) ==
  IF extractFirstClaimString(e, "P2093") # Null THEN extractFirstClaimString(e, "P2093")
  ELSE LET a == IF extractFirstClaimEntityId(e, "P50") # Null
                THEN extractFirstClaimEntityId(e, "P50")
                ELSE extractFirstClaimEntityId(e, "P170")
           target == {i \in 1..Len(world.labels[a]) :
                        world.labels[a][i].language = world.lang
                        /\ Trim(world.labels[a][i].value) # <<>>}
           fallback == {i \in 1..Len(world.labels[a]) :
                          world.labels[a][i].language = En
                          /\ Trim(world.labels[a][i].value) # <<>>}
       IN  IF a = Null THEN Null
           ELSE IF target # {} THEN Trim(world.labels[a][CHOOSE i \in target : TRUE].value)
           ELSE IF fallback # {} THEN Trim(world.labels[a][CHOOSE i \in fallback : TRUE].value)
           ELSE Null

ExpectedAuthor(world, q) ==
  LET e == world.entities[q]
      edition == extractFirstClaimEntityId(e, "P629")
  IN  IF HasAuthorClaim(e) THEN TwoChecks(world, e)
      ELSE IF edition # Null /\ edition \in DOMAIN world.entities
      THEN TwoChecks(world, world.entities[edition])
      ELSE Null

C32_AuthorOrder ==
  returned # <<>> =>
    \A i \in 1..Len(args.batch) :
      returned[1][args.batch[i]] = ExpectedAuthor(args, args.batch[i])

\* a work without an author claim, which is an edition of a work whose author
\* entity has a blank label in the target language: the English label
C32_Witness ==
  /\ returned # <<>>
  /\ ~HasAuthorClaim(args.entities[WorkA])
  /\ EditionQ \in DOMAIN args.entities
  /\ extractFirstClaimString(args.entities[EditionQ], "P2093") = Null
  /\ returned[1][WorkA] = <<"e">> \o AuthorB
  /\ Len(args.batch) = 2
  /\ returned[1][WorkB] = returned[1][WorkA]

\* C33: pickBestOlDoc returns a doc only when the best score reaches the
\* threshold, and none when it is below; the threshold with an unknown wanted
\* author is higher than with a known one, and with a wanted title of three
\* words or fewer higher again than with a longer one
WantedTokens == Len(SplitTokens(normalizeForLookup(args.title), <<>>))

WantedAuthorKnown ==
  normalizeForLookup(args.author) \notin {<<>>, normalizeForLookup(Unknown)}

C33_Threshold ==
  returned # <<>> =>
    LET r == returned[1]
    IN  /\ r.doc # 0 => r.found /\ r.score >= r.threshold
        /\ (r.found /\ r.score < r.threshold) => r.doc = 0
        /\ ~WantedAuthorKnown => r.threshold > OlThreshold(TRUE, WantedTokens)
        /\ (~WantedAuthorKnown /\ WantedTokens <= 3) => r.threshold > OlThreshold(FALSE, 4)

\* C33, as the code has it: a doc is returned only when the best score reaches
\* the threshold, and none when it is below; the threshold with an unknown
\* wanted author is never lower than with a known one, and it is higher only
\* when the wanted title has three words or fewer; with an unknown author the
\* doc returned has the wanted title exactly
C33_ThresholdAmended ==
  returned # <<>> =>
    LET r == returned[1]
    IN  /\ r.doc # 0 => r.found /\ r.score >= r.threshold
        /\ (r.found /\ r.score < r.threshold) => r.doc = 0
        /\ ~WantedAuthorKnown => r.threshold >= OlThreshold(TRUE, WantedTokens)
        /\ ~WantedAuthorKnown =>
             (r.threshold > OlThreshold(TRUE, WantedTokens) <=> WantedTokens <= 3)
        /\ (~WantedAuthorKnown /\ WantedTokens <= 3) => r.threshold > OlThreshold(FALSE, 4)
        /\ (~WantedAuthorKnown /\ r.doc # 0) =>
             normalizeForLookup(args.docs[r.doc].title) = normalizeForLookup(args.title)

\* with an unknown author and a title of four words, the best doc holds the
\* wanted title without being equal to it, and no doc is returned
C33_Witness ==
  /\ returned # <<>>
  /\ ~WantedAuthorKnown
  /\ WantedTokens = 4
  /\ returned[1].found
  /\ returned[1].score = 6
  /\ returned[1].threshold = 8
  /\ returned[1].doc = 0

\* C34: when every datastore call and every fetch returns or fails, every sync
\* call settles; a settled run has no entry in catalogSyncInFlight, and a call
\* made when no run of its language is executing starts a run of its own,
\* which goes on to its 'running' write
C34_SettlesAndRestarts ==
  /\ \A c \in 1..MaxCalls :
       (c <= Len(calls) /\ calls[c].outcome = "pending")
         ~> (c <= Len(calls) /\ calls[c].outcome # "pending")
  /\ [](\A r \in CallIds : Settled(r) => catalogSyncInFlight[runs[r].lang] # r)
  /\ [][Len(calls') > Len(calls) =>
          LET c == Len(calls')
          IN  ExecutingFor(calls'[c].lang) = {} =>
                /\ runs'[c].pc = "wRunning"
                /\ calls'[c].run = c]_vars
  /\ \A c \in 1..MaxCalls :
       (c <= Len(runs) /\ runs[c].pc = "wRunning")
         ~> (c <= Len(runs) /\ (runs[c].lastWrite = "running" \/ runs[c].error = ErrState))

\* a run of a language has settled, and a later call for the language has
\* started a run of its own that has written 'running' and has settled too
C34_Witness ==
  \E r1, r2 \in CallIds :
    /\ r1 < r2
    /\ runs[r1].lang = runs[r2].lang
    /\ Settled(r1) /\ Settled(r2)
    /\ calls[r2].run = r2
    /\ runs[r2].lastWrite # "none"
    /\ calls[r2].outcome # "pending"
    /\ catalogSyncInFlight[runs[r2].lang] = 0

\* C35: an upsert of an import, also when a sync or another import writes
\* between its read and its upsert, replaces no download url that is stored
\* and not empty, and no cover that is stored and neither missing nor generic
C35_NotTorn ==
  [][\A k \in 1..Len(imports) :
       (imports[k].pc = "upsert" /\ imports'[k] # imports[k]) =>
         \A x \in catalog :
           \E y \in catalog' :
             /\ y.id = x.id
             /\ x.download_url # "" => y.download_url = x.download_url
             /\ HasOwnCover(x) => y.cover_url = x.cover_url]_vars

\* C36: an overview request that starts after an import of its language has
\* upserted its rows and cleared the overview cache gets data read after the
\* import: when it is answered from the cache, the entry holds the rows of
\* the import
Imported(k) == imports[k].pc \in {"counts", "rebuild", "done"} /\ imports[k].toUpsert # <<>>

C36_NoStaleOverview ==
  [][Len(lookups') > Len(lookups) =>
       LET m == lookups'[Len(lookups')]
       IN  (m.cache = "overview" /\ m.work = 0) =>
             \A k \in 1..Len(imports) :
               Imported(k) =>
                 \A i \in 1..Len(imports[k].toUpsert) : imports[k].toUpsert[i].id \in m.value[1]]_vars

\* the rows a walk is to return: the count rows of the language, the
\* downloadable rows of the category, of the author, or that match the search
WalkRows(w) ==
  IF w.op = "categories"
  THEN {CategoryCountRows(En)[i].category : i \in 1..Len(CategoryCountRows(En))}
  ELSE IF w.op = "category"
  THEN {x.id : x \in {y \in Downloadable(En) : y.category = w.category}}
  ELSE IF w.op = "author"
  THEN {x.id : x \in {y \in Downloadable(En) :
                        y.author_norm = normalizeForCatalogNorm(normalizeAuthorKey(Trim(w.author)))}}
  ELSE {x.id : x \in {y \in Downloadable(En) :
                        \/ Contains(y.title_norm, normalizeSearchKey(Trim(w.q)))
                        \/ Contains(y.author_norm, normalizeSearchKey(Trim(w.q)))}}

WalkDone == args # <<>> /\ resp.status = 200 /\ resp.nextCursor = Null

\* C37: over an unchanged catalog, a walk from cursor 0 along nextCursor to
\* null returns every matching row exactly once, and no request of a walk
\* over matching rows is answered 404.
C37_WalkReturnsAll ==
  /\ WalkDone =>
       /\ {returned[i] : i \in 1..Len(returned)} = WalkRows(args[1])
       /\ \A i, j \in 1..Len(returned) : returned[i] = returned[j] => i = j
  /\ (args # <<>> /\ WalkRows(args[1]) # {}) => resp.status # 404

\* C38: every row that a sync or an import writes to the catalog has a title
\* that is not empty, a resolved author, a download URL that is not empty,
\* the language of the operation as lang_code, and the id
\* toCatalogId(lang_code, title, author).
SoundRow(x) ==
  /\ x.title # <<>>
  /\ x.author # <<>>
  /\ ToLowerCase(Trim(x.author)) # ToLowerCase(Unknown)
  /\ x.download_url # ""
  /\ x.id = toCatalogId(x.lang_code, x.title, x.author)

WrittenBy(x) ==
  {runs[r].lang : r \in {c \in 1..Len(runs) : runs[c].pc = "upsert" /\ runs'[c] # runs[c]}}
    \cup {imports[k].lang : k \in {j \in 1..Len(imports) :
                                     imports[j].pc = "upsert" /\ imports'[j] # imports[j]}}

C38_RowsWritten ==
  [][\A x \in catalog' \ catalog : SoundRow(x) /\ WrittenBy(x) = {x.lang_code}]_vars

C38_Witness ==
  /\ \E x \in catalog : x.source = "gutendex"
  /\ \E k \in 1..Len(imports) :
       /\ imports[k].pc = "done"
       /\ imports[k].inserted > 0
       /\ \E i \in 1..Len(imports[k].toUpsert) : imports[k].toUpsert[i] \in catalog

\* C39: mapWithConcurrency invokes fn once for every item, has at most
\* max(1, concurrency) invocations in flight, stores the result of items[i]
\* at index i in whatever order the invocations resolve, and resolves only
\* after every invocation has resolved.
MapInFlight == {w \in 1..Len(args.workers) : args.workers[w] > 0}

C39_MapsEveryItem ==
  /\ args.pc # "new" =>
       /\ \A i \in 1..Len(args.items) : args.invoked[i] <= 1
       /\ Cardinality(MapInFlight) <= MaxOf(1, args.concurrency)
       /\ \A v, w \in MapInFlight : args.workers[v] = args.workers[w] => v = w
  /\ returned # <<>> =>
       /\ MapInFlight = {}
       /\ \A i \in 1..Len(args.items) : args.invoked[i] = 1
       /\ returned[1] = [i \in 1..Len(args.items) |-> FnOf(args.items[i])]

\* three items and two workers, resolved after the second item settled first
C39_Witness ==
  /\ returned # <<>>
  /\ args.concurrency = 2
  /\ args.settled = <<2, 1, 3>>
  /\ args.items[1] # args.items[2]

\* C40: once a title detail fetch of a fetchManyBooks call has detected a
\* block, every detail fetch the call starts afterwards is skipped without a
\* request, and the call returns the details parsed before.
DetailsIn(m, state) == {i \in 1..Len(m.details) : m.details[i] = state}

C40_FailFast ==
  [][\A c \in 1..Len(mbCalls) :
       LET m == mbCalls[c]
           m2 == mbCalls'[c]
       IN  m.pc = "details" =>
             /\ \A i \in DetailsIn(m, "new") :
                  (m2.details[i] # "new" /\ m2.blockSeen) => m2.details[i] = "skipped"
             /\ m2.requests - m.requests = Cardinality(DetailsIn(m, "new") \cap DetailsIn(m2, "sent"))
             /\ DetailsIn(m, "parsed") \subseteq DetailsIn(m2, "parsed")
             /\ m2.pc = "done" =>
                  /\ m2.result = "returned"
                  /\ m2.books = Cardinality(DetailsIn(m2, "parsed"))
                  /\ DetailsIn(m2, "new") = {}]_vars

\* a call over more details than workers has returned: the first detail was
\* parsed, the second detected the block, the ones beyond the workers were
\* skipped
C40_Witness ==
  \E c \in 1..Len(mbCalls) :
    /\ mbCalls[c].pc = "done"
    /\ mbCalls[c].blockSeen
    /\ Len(mbCalls[c].details) > DetailConcurrency
    /\ mbCalls[c].details[1] = "parsed"
    /\ mbCalls[c].details[2] = "failed"
    /\ mbCalls[c].details[DetailConcurrency + 1] = "skipped"
    /\ mbCalls[c].books >= 1
    /\ mbCalls[c].requests = 2 + DetailConcurrency

====
